---- MODULE Spec2Model ----
(***************************************************************************)
(* Path-planning engine of the learning path advisor.                      *)
(*                                                                         *)
(* AdvancedGoalBasedAgent (advanced_goal_based_agent.py): a search agent   *)
(* over a weighted directed graph `routes` (node -> list of (dest, cost)), *)
(* with Dijkstra, A* and BFS searches, the k-alternative path generator    *)
(* find_all_paths, and the plan / get_path_details entry points.           *)
(*                                                                         *)
(* EnhancedLearningPathAdvisor (enhanced_learning_path_advisor.py): the     *)
(* course catalog, the weighted planning graph built from it, and the      *)
(* get_learning_path entry point that plans on that graph.                 *)
(*                                                                         *)
(* Costs are Python floats in the source.  The model uses fixed-point      *)
(* integers, One units to the float 1.0, on which the operations of the    *)
(* searches (+, <, <=, * 2) are exact; float('inf') is the integer         *)
(* Infinity, larger than every finite cost the bounded graphs can produce. *)
(* Float rounding is not modelled: two costs that are equal as rationals   *)
(* are equal in the model.                                                 *)
(***************************************************************************)
EXTENDS Integers, Sequences, FiniteSets, TLC

(***************************************************************************)
(* Bounds of the model.                                                    *)
(***************************************************************************)
\* Edge weights are drawn from 0..MaxWeight.
MaxWeight == 1
\* Heuristic values are drawn from 0..MaxH.
MaxH == 1
\* The finite cost ceiling find_all_paths is called with.
Ceiling == 1
\* The largest edge weight of the graphs get_path_details is checked on.
MaxDetour == 3
\* The threads that share a cache or a monitor.
MaxThreads == 2
\* The calls one thread makes.
MaxCalls == 2
\* The largest max_size of a cache.
MaxSize == 2
\* time.time() runs from 0 to MaxTime.
MaxTime == 2
\* The largest max_history of a monitor.
MaxHistory == 2

\* The keys of the routes dictionary.
Keys == {"A", "B", "C", "D"}
\* A graph under construction holds at most as many edges as it has nodes.
MaxEdges == Cardinality(Keys)
\* A node name that is never a key of the graph.
Missing == "X"
AllNodes == Keys \cup {Missing}

\* Python's None, for previous[...], a missing path and a missing algorithm.
None == "None"
\* heuristic=None: the heuristic that is defined nowhere.
NoHeuristic == << >>
\* float('inf')
Infinity == 1000000
\* The float 1.0 in the fixed-point costs of the model: the style weights of
\* the advisor are tenths and its time component is time_hours / 10.0, so
\* every edge weight it computes is a whole number of hundredths.
One == 100

\* Python's order on the node names (str comparison), used by heapq on
\* (priority, node) tuples.
NodeOrd(n) ==
    CASE n = "A" -> 1 [] n = "Algorithms" -> 2 [] n = "Astrology" -> 3
      [] n = "B" -> 4 [] n = "C" -> 5 [] n = "D" -> 6
      [] n = "Data Structures" -> 7 [] n = "Database Systems" -> 8
      [] n = "Machine Learning" -> 9 [] n = "Python Basics" -> 10
      [] n = "Python Intermediate" -> 11 [] n = "X" -> 12
      [] n = "virtual_start" -> 13 [] OTHER -> 14

\* PathfindingAlgorithm
DIJKSTRA == "dijkstra"
ASTAR == "astar"
BFS == "bfs"
PathfindingAlgorithm == {DIJKSTRA, ASTAR, BFS}

VARIABLES
    routes,      \* self.routes: [Keys -> Seq(<<dest, cost>>)]
    start,       \* self.start
    goal,        \* self.goal
    heuristic,   \* self.heuristic: NoHeuristic or [node -> h(node, goal)]
    algorithm,   \* self.algorithm
    phase,       \* "build" | "ready" | "invalid" | "done"
    result,      \* what the last call returned or raised
    start_courses, \* the completed courses of the learner, a list
    actions,     \* AdvancedUtilityBasedAgent.actions: the dict, in insertion
                 \* order, as a sequence of [name, outcomes]
    decision_strategy,       \* AdvancedUtilityBasedAgent.decision_strategy
    path_evaluation_factors, \* HybridAgent.path_evaluation_factors
    best_paths,  \* HybridAgent.best_paths
    advisor,     \* the fields of a LearningPathAdvisorWithHybridAgent
    cache,       \* InMemoryCache.cache: the OrderedDict, as a sequence of entries
    lock,        \* InMemoryCache.lock: the thread that holds it, or NoThread
    stats,       \* InMemoryCache.stats
    max_size,    \* InMemoryCache.max_size
    now,         \* time.time()
    uses,        \* the keys of the successful get and set calls, oldest first
    metrics,     \* PerformanceMonitor.metrics: [name -> list of metrics]
    lists,       \* the list objects the monitor created
    max_history, \* PerformanceMonitor.max_history
    threads      \* per thread: the call it is in and its local variables

vars == <<routes, start, goal, heuristic, algorithm, phase, result,
          start_courses, actions, decision_strategy, path_evaluation_factors,
          best_paths, advisor, cache, lock, stats, max_size, now, uses,
          metrics, lists, max_history, threads>>

\* The fields of the planning agents and of the advisor.
plannerVars == <<routes, start, goal, heuristic, algorithm, phase, result,
                 start_courses, actions, decision_strategy,
                 path_evaluation_factors, best_paths, advisor>>

\* The cache, the monitor and the threads that call them.
cacheVars == <<cache, lock, stats, max_size, now, uses>>
monitorVars == <<metrics, lists, max_history>>
serviceVars == <<cache, lock, stats, max_size, now, uses, metrics, lists,
                 max_history, threads>>

\* Before a cache or a monitor is constructed.
NoServices ==
    /\ cache = <<>>
    /\ lock = 0
    /\ stats = <<>>
    /\ max_size = 0
    /\ now = 0
    /\ uses = <<>>
    /\ metrics = <<>>
    /\ lists = <<>>
    /\ max_history = 0
    /\ threads = <<>>

\* The fields of the utility agent, of the hybrid agent and of its advisor.
arbiterVars == <<actions, decision_strategy, path_evaluation_factors,
                 best_paths, advisor>>

\* Before any of these objects is constructed.
NoArbiter ==
    /\ actions = <<>>
    /\ decision_strategy = None
    /\ path_evaluation_factors = <<>>
    /\ best_paths = <<>>
    /\ advisor = <<>>

(***************************************************************************)
(* Results of a search: (path, cost), (None, inf), or an exception.        *)
(***************************************************************************)
Found(path, cost) == [status |-> "ok", path |-> path, cost |-> cost]
NoPath == [status |-> "nopath", path |-> <<>>, cost |-> Infinity]
Raised(exc) == [status |-> exc, path |-> <<>>, cost |-> Infinity]

\* heapq on (priority, node) tuples: the tuple order.
TupleLE(e, f) == e[1] < f[1] \/ (e[1] = f[1] /\ NodeOrd(e[2]) <= NodeOrd(f[2]))

\* heapq.heappop returns the least tuple.  No search pushes the same tuple
\* twice (a push needs a strictly smaller distance), so the heap is a set.
\* Mutant: the pop returns the greatest tuple.
HeapMax(heap) == CHOOSE e \in heap : \A f \in heap : TupleLE(f, e)

HeapMin(heap) == CHOOSE e \in heap : \A f \in heap : TupleLE(e, f)

\* Mutant: the reconstruction loop appends every node twice.
RECURSIVE ReconstructTwice(_, _)
ReconstructTwice(previous, current) ==
    IF current = None THEN <<>>
    ELSE ReconstructTwice(previous, previous[current]) \o <<current, current>>

\* The path reconstruction loop: follow previous[] from the goal up to None,
\* then reverse.
RECURSIVE Reconstruct(_, _)
Reconstruct(previous, current) ==
    IF current = None THEN <<>>
    ELSE Append(Reconstruct(previous, previous[current]), current)

(***************************************************************************)
(* dijkstra_pathfinding                                                    *)
(***************************************************************************)
\* The for loop over self.routes[current_node], from edge i on.
RECURSIVE DijkstraRelax(_, _, _, _, _)
DijkstraRelax(edges, i, current_node, current_distance, st) ==
    IF i > Len(edges) \/ st.error # None THEN st
    ELSE LET neighbor == edges[i][1]
             weight == edges[i][2]
             new_distance == current_distance + weight
         IN  IF neighbor \in st.visited
             THEN DijkstraRelax(edges, i + 1, current_node, current_distance, st)
             ELSE IF neighbor \notin DOMAIN st.distances
             THEN [st EXCEPT !.error = "KeyError"]
             ELSE IF new_distance < st.distances[neighbor]
             THEN DijkstraRelax(edges, i + 1, current_node, current_distance,
                      [st EXCEPT !.distances[neighbor] = new_distance,
                                 !.previous[neighbor] = current_node,
                                 !.unvisited = @ \cup {<<new_distance, neighbor>>}])
             ELSE DijkstraRelax(edges, i + 1, current_node, current_distance, st)

\* The while loop over the heap.
RECURSIVE DijkstraLoop(_, _, _)
DijkstraLoop(rt, g, st) ==
    IF st.unvisited = {} \/ st.error # None THEN st
    ELSE LET e == HeapMin(st.unvisited)
             popped == [st EXCEPT !.unvisited = @ \ {e}]
         IN  IF e[2] \in st.visited THEN DijkstraLoop(rt, g, popped)
             ELSE LET marked == [popped EXCEPT !.visited = @ \cup {e[2]}]
                  IN  IF e[2] = g THEN marked
                      ELSE DijkstraLoop(rt, g,
                               DijkstraRelax(rt[e[2]], 1, e[2], e[1], marked))

\* Mutant: a reconstructed path is never rejected.
DijkstraNoPathNever(path, s) == FALSE

\* if path[0] != self.start
DijkstraNoPath(path, s) == path[1] # s

\* The state before the while loop.
DijkstraInit(rt, s) ==
    [distances |-> [n \in DOMAIN rt |-> IF n = s THEN 0 ELSE Infinity],
     previous |-> [n \in DOMAIN rt |-> None],
     unvisited |-> {<<0, s>>},
     visited |-> {},
     error |-> None]

\* What follows the while loop, which ended in state fin: the exception it
\* raised, or the reconstructed path and its distance.
DijkstraReturn(fin, path, s, g) ==
    IF fin.error # None THEN Raised(fin.error)
    ELSE IF DijkstraNoPath(path, s) THEN NoPath
    ELSE Found(path, fin.distances[g])

DijkstraAfterLoop(fin, s, g) ==
    DijkstraReturn(fin, Reconstruct(fin.previous, g), s, g)

DijkstraPathfinding(rt, s, g) ==
    DijkstraAfterLoop(DijkstraLoop(rt, g, DijkstraInit(rt, s)), s, g)

(***************************************************************************)
(* astar_pathfinding                                                       *)
(***************************************************************************)
\* Mutant: the priority is the heuristic alone.
FScoreGreedy(g_score, h_value) == h_value

\* f_score[neighbor] = g_score[neighbor] + heuristic(neighbor, goal)
FScore(g_score, h_value) == g_score + h_value

\* Mutant: a reconstructed path is never rejected.
NoPathFoundNever(path, s) == FALSE

\* if not path or path[0] != self.start
NoPathFound(path, s) == path = <<>> \/ path[1] # s

\* The for loop over self.routes[current_node], from edge i on.
RECURSIVE AStarRelax(_, _, _, _, _)
AStarRelax(edges, i, current_node, h, st) ==
    IF i > Len(edges) \/ st.error # None THEN st
    ELSE LET neighbor == edges[i][1]
             weight == edges[i][2]
         IN  IF neighbor \in st.closed_set
             THEN AStarRelax(edges, i + 1, current_node, h, st)
             ELSE IF neighbor \notin DOMAIN st.g_score
             THEN [st EXCEPT !.error = "KeyError"]
             ELSE LET tentative_g_score == st.g_score[current_node] + weight
                  IN  IF tentative_g_score < st.g_score[neighbor]
                      THEN AStarRelax(edges, i + 1, current_node, h,
                               [st EXCEPT !.previous[neighbor] = current_node,
                                          !.g_score[neighbor] = tentative_g_score,
                                          !.open_set = @ \cup
                                              {<<FScore(tentative_g_score, h[neighbor]), neighbor>>}])
                      ELSE AStarRelax(edges, i + 1, current_node, h, st)

\* The while loop over the open set.
RECURSIVE AStarLoop(_, _, _, _)
AStarLoop(rt, g, h, st) ==
    IF st.open_set = {} \/ st.error # None THEN st
    ELSE LET e == HeapMin(st.open_set)
             popped == [st EXCEPT !.open_set = @ \ {e}]
         IN  IF e[2] \in st.closed_set THEN AStarLoop(rt, g, h, popped)
             ELSE LET marked == [popped EXCEPT !.closed_set = @ \cup {e[2]}]
                  IN  IF e[2] = g THEN marked
                      ELSE AStarLoop(rt, g, h,
                               AStarRelax(rt[e[2]], 1, e[2], h, marked))

\* astar_pathfinding once the heuristic is known to be there.
\* The state before the while loop.
AStarInit(rt, s, h) ==
    [g_score |-> [n \in DOMAIN rt |-> IF n = s THEN 0 ELSE Infinity],
     previous |-> [n \in DOMAIN rt |-> None],
     open_set |-> {<<h[s], s>>},
     closed_set |-> {},
     error |-> None]

\* What follows the while loop, which ended in state fin.
AStarReturn(fin, path, s, g) ==
    IF fin.error # None THEN Raised(fin.error)
    ELSE IF NoPathFound(path, s) THEN NoPath
    ELSE Found(path, fin.g_score[g])

AStarAfterLoop(fin, s, g) ==
    AStarReturn(fin, Reconstruct(fin.previous, g), s, g)

AStarSearch(rt, s, g, h) ==
    AStarAfterLoop(AStarLoop(rt, g, h, AStarInit(rt, s, h)), s, g)

\* Mutant: without a heuristic the search falls back to Dijkstra.
AStarOrDijkstra(rt, s, g, h) ==
    IF h = NoHeuristic THEN DijkstraPathfinding(rt, s, g)
    ELSE AStarSearch(rt, s, g, h)

AStarPathfinding(rt, s, g, h) ==
    IF h = NoHeuristic THEN Raised("ValueError")
    ELSE AStarSearch(rt, s, g, h)

(***************************************************************************)
(* bfs_pathfinding                                                         *)
(***************************************************************************)
\* dict.get(key, default)
Get(dict, key, default) == IF key \in DOMAIN dict THEN dict[key] ELSE default

\* dict[key] = value, adding the key when it is new.
Put(dict, key, value) ==
    [k \in DOMAIN dict \cup {key} |-> IF k = key THEN value ELSE dict[k]]

\* The for loop over self.routes.get(current, []), from edge i on.
RECURSIVE BfsVisit(_, _, _, _)
BfsVisit(edges, i, current, st) ==
    IF i > Len(edges) THEN st
    ELSE LET neighbor == edges[i][1]
         IN  IF ~Get(st.visited, neighbor, FALSE)
             THEN BfsVisit(edges, i + 1, current,
                      [st EXCEPT !.visited = Put(@, neighbor, TRUE),
                                 !.previous = Put(@, neighbor, current),
                                 !.queue = Append(@, neighbor)])
             ELSE BfsVisit(edges, i + 1, current, st)

\* The while loop over the queue.
RECURSIVE BfsLoop(_, _, _)
BfsLoop(rt, g, st) ==
    IF st.queue = <<>> THEN st
    ELSE LET current == Head(st.queue)
             popped == [st EXCEPT !.queue = Tail(@)]
         IN  IF current = g THEN popped
             ELSE BfsLoop(rt, g, BfsVisit(Get(rt, current, <<>>), 1, current, popped))

\* Mutant: the cost counts the nodes of the path, not its edges.
BfsCostNodes(path) == One * Len(path)

\* float(max(len(path) - 1, 0))
BfsCost(path) == One * (IF Len(path) - 1 > 0 THEN Len(path) - 1 ELSE 0)

\* The state before the while loop.
BfsInit(rt, s) ==
    [queue |-> <<s>>,
     previous |-> [n \in DOMAIN rt |-> None],
     visited |-> [n \in DOMAIN rt |-> n = s]]

\* What follows the path reconstruction.
BfsReturn(path, s) ==
    IF NoPathFound(path, s) THEN NoPath
    ELSE Found(path, BfsCost(path))

BfsPathfinding(rt, s, g) ==
    BfsReturn(Reconstruct(BfsLoop(rt, g, BfsInit(rt, s)).previous, g), s)

(***************************************************************************)
(* validate_graph, run by the constructor                                  *)
(***************************************************************************)
\* Mutant: only the start node is checked.
ValidateStartOnly(rt, s, g) == s \in DOMAIN rt

\* TRUE when validate_graph returns, FALSE when it raises ValueError.  The
\* warnings it prints for dangling edge targets change nothing.
ValidateGraph(rt, s, g) == s \in DOMAIN rt /\ g \in DOMAIN rt

\* The (node, dest) pairs validate_graph prints a warning for: the edges
\* whose destination is no key of the graph.
Warnings(rt) ==
    UNION {{<<node, rt[node][i][1]>> :
                i \in {j \in 1..Len(rt[node]) : rt[node][j][1] \notin DOMAIN rt}} :
           node \in DOMAIN rt}

(***************************************************************************)
(* find_all_paths                                                          *)
(***************************************************************************)
\* The copy of the graph without the edges u -> v (every parallel one).
RemoveEdge(rt, u, v) ==
    [node \in DOMAIN rt |->
        LET Keep(e) == ~(node = u /\ e[1] = v) IN SelectSeq(rt[node], Keep)]

\* The copy of the graph without the edges into `node` and out of it; the
\* node stays a key.
RemoveNode(rt, node) ==
    [k \in DOMAIN rt |->
        IF k = node THEN <<>>
        ELSE LET Keep(e) == e[1] # node IN SelectSeq(rt[k], Keep)]

\* path in [p for p, _ in paths]
PathIn(path, paths) == \E j \in 1..Len(paths) : paths[j].path = path

\* Mutant: an entry also goes before the entries of equal cost.
CostBeforeOrEqual(x, y) == x.cost <= y.cost

\* The order of the sort key: x goes before y only when it costs less.
CostBefore(x, y) == x.cost < y.cost

\* list.sort(key=cost) and sorted(key=cost): stable, ascending by cost.
RECURSIVE InsertByCost(_, _)
InsertByCost(sorted, x) ==
    IF sorted = <<>> THEN <<x>>
    ELSE IF CostBefore(x, Head(sorted)) THEN <<x>> \o sorted
    ELSE <<Head(sorted)>> \o InsertByCost(Tail(sorted), x)

RECURSIVE SortByCost(_)
SortByCost(seq) ==
    IF seq = <<>> THEN <<>>
    ELSE InsertByCost(SortByCost(SubSeq(seq, 1, Len(seq) - 1)), seq[Len(seq)])

\* The search of a temporary agent built on a modified graph: the
\* constructor validates, then dijkstra_pathfinding runs.
TempAgentSearch(modified_routes, s, g) ==
    IF ~ValidateGraph(modified_routes, s, g) THEN Raised("ValueError")
    ELSE DijkstraPathfinding(modified_routes, s, g)

\* Mutant: an alternative is kept whatever it costs.
ConsiderAnyCost(acc, seen, max_cost, alt) ==
    IF alt.status \notin {"ok", "nopath"}
    THEN [acc EXCEPT !.error = alt.status]
    ELSE IF alt.status = "ok" /\ alt.path # <<>> /\ ~PathIn(alt.path, seen)
    THEN [acc EXCEPT !.paths = Append(@, [path |-> alt.path, cost |-> alt.cost])]
    ELSE acc

\* What a removal loop does with the result alt of a temporary agent: an
\* exception ends the loop; a path within max_cost that is not among `seen`
\* is appended.  acc holds the list being built and the exception, if any.
Consider(acc, seen, max_cost, alt) ==
    IF alt.status \notin {"ok", "nopath"}
    THEN [acc EXCEPT !.error = alt.status]
    ELSE IF alt.status = "ok" /\ alt.path # <<>> /\ alt.cost <= max_cost
            /\ ~PathIn(alt.path, seen)
    THEN [acc EXCEPT !.paths = Append(@, [path |-> alt.path, cost |-> alt.cost])]
    ELSE acc

\* The edge-removal loop, from edge i of the shortest path on.  acc.paths is
\* potential_candidates.
RECURSIVE EdgeRemovalPass(_, _, _, _, _, _, _, _)
EdgeRemovalPass(rt, s, g, max_cost, shortest_path, all_paths, i, acc) ==
    IF i > Len(shortest_path) - 1 \/ acc.error # None THEN acc
    ELSE EdgeRemovalPass(rt, s, g, max_cost, shortest_path, all_paths, i + 1,
             Consider(acc, all_paths, max_cost,
                 TempAgentSearch(
                     RemoveEdge(rt, shortest_path[i], shortest_path[i + 1]), s, g)))

\* for path, cost in candidates: if path not in all_paths: append
RECURSIVE AppendNew(_, _)
AppendNew(all_paths, candidates) ==
    IF candidates = <<>> THEN all_paths
    ELSE IF PathIn(Head(candidates).path, all_paths)
    THEN AppendNew(all_paths, Tail(candidates))
    ELSE AppendNew(Append(all_paths, Head(candidates)), Tail(candidates))

\* The node-removal loop over shortest_path[1:-1], from position i on.
\* acc.paths is all_paths.
RECURSIVE NodeRemovalPass(_, _, _, _, _, _, _)
NodeRemovalPass(rt, s, g, max_cost, shortest_path, i, acc) ==
    IF i > Len(shortest_path) - 1 \/ acc.error # None THEN acc
    ELSE NodeRemovalPass(rt, s, g, max_cost, shortest_path, i + 1,
             Consider(acc, acc.paths, max_cost,
                 TempAgentSearch(RemoveNode(rt, shortest_path[i]), s, g)))

\* The final pass: keep the first entry of every node sequence.
Unique(all_paths) == AppendNew(<<>>, all_paths)

AllPaths(paths) == [status |-> "ok", paths |-> paths]
AllPathsRaised(exc) == [status |-> exc, paths |-> <<>>]

\* The end of find_all_paths, after the node-removal loop.
AfterNodeRemoval(node_pass) ==
    IF node_pass.error # None THEN AllPathsRaised(node_pass.error)
    ELSE AllPaths(SortByCost(Unique(node_pass.paths)))

\* find_all_paths after the edge-removal loop: the candidates are sorted
\* and appended to all_paths, then the node-removal loop runs.
AfterEdgeRemoval(rt, s, g, max_cost, shortest_path, all_paths, edge_pass) ==
    IF edge_pass.error # None THEN AllPathsRaised(edge_pass.error)
    ELSE AfterNodeRemoval(
             NodeRemovalPass(rt, s, g, max_cost, shortest_path, 2,
                 [paths |-> AppendNew(all_paths, SortByCost(edge_pass.paths)),
                  error |-> None]))

\* find_all_paths from all_paths = [(shortest_path, shortest_cost)] on.
Alternatives(rt, s, g, max_cost, shortest_path, all_paths) ==
    AfterEdgeRemoval(rt, s, g, max_cost, shortest_path, all_paths,
        EdgeRemovalPass(rt, s, g, max_cost, shortest_path, all_paths, 1,
            [paths |-> <<>>, error |-> None]))

\* find_all_paths after its first search returned `shortest`.
AfterShortest(rt, s, g, max_cost, shortest) ==
    IF shortest.status \notin {"ok", "nopath"} THEN AllPathsRaised(shortest.status)
    ELSE IF shortest.status = "nopath" \/ shortest.path = <<>>
            \/ shortest.cost > max_cost
    THEN AllPaths(<<>>)
    ELSE Alternatives(rt, s, g, max_cost, shortest.path,
             <<[path |-> shortest.path, cost |-> shortest.cost]>>)

FindAllPaths(rt, s, g, max_cost) ==
    AfterShortest(rt, s, g, max_cost, DijkstraPathfinding(rt, s, g))

(***************************************************************************)
(* plan and get_path_details                                               *)
(***************************************************************************)
\* The separator of " -> ".join(path).
Arrow == " -> "

\* " -> ".join(path): the names with the separator between them.
RECURSIVE Join(_)
Join(path) ==
    IF path = <<>> THEN <<>>
    ELSE IF Len(path) = 1 THEN <<path[1]>>
    ELSE <<Head(path), Arrow>> \o Join(Tail(path))

\* str.split(" -> "): the pieces between the separators.
Split(str) == LET Keep(x) == x # Arrow IN SelectSeq(str, Keep)

\* The search the algorithm selects; anything unknown falls back to Dijkstra.
SelectedSearch(rt, s, g, h, alg) ==
    IF alg = DIJKSTRA THEN DijkstraPathfinding(rt, s, g)
    ELSE IF alg = ASTAR THEN AStarPathfinding(rt, s, g, h)
    ELSE IF alg = BFS THEN BfsPathfinding(rt, s, g)
    ELSE DijkstraPathfinding(rt, s, g)

\* plan(): (path description, cost), (None, inf), or the search's exception.
PlanReturn(found) ==
    IF found.status \notin {"ok", "nopath"}
    THEN [status |-> found.status, path_str |-> None, cost |-> Infinity]
    ELSE IF found.status = "nopath"
    THEN [status |-> "ok", path_str |-> None, cost |-> Infinity]
    ELSE [status |-> "ok", path_str |-> Join(found.path), cost |-> found.cost]

PlanOf(rt, s, g, h, alg) == PlanReturn(SelectedSearch(rt, s, g, h, alg))

\* get_path_details(): the result dictionary, or the exception raised by
\* plan() or find_all_paths().
\* The dictionary of get_path_details without a path; status is "ok" for the
\* structured failure response and the exception when the call raised.
NoDetails(status, s, g, alg) ==
    [status |-> status, success |-> FALSE, best_path |-> <<>>,
     best_cost |-> Infinity, all_alternative_paths |-> <<>>,
     start_node |-> s, goal_node |-> g, algorithm_used |-> alg]

\* get_path_details once find_all_paths returned all_paths.
DetailsReturn(s, g, alg, planned, all_paths) ==
    IF all_paths.status # "ok" THEN NoDetails(all_paths.status, s, g, alg)
    ELSE [status |-> "ok", success |-> TRUE,
          best_path |-> Split(planned.path_str),
          best_cost |-> planned.cost,
          all_alternative_paths |-> all_paths.paths,
          start_node |-> s, goal_node |-> g, algorithm_used |-> alg]

\* get_path_details once plan() returned `planned`.
DetailsOfPlan(rt, s, g, alg, planned) ==
    IF planned.status # "ok" THEN NoDetails(planned.status, s, g, alg)
    ELSE IF planned.path_str = None \/ planned.cost = Infinity
    THEN NoDetails("ok", s, g, alg)
    ELSE DetailsReturn(s, g, alg, planned, FindAllPaths(rt, s, g, planned.cost * 2))

PathDetails(rt, s, g, h, alg) ==
    DetailsOfPlan(rt, s, g, alg, PlanOf(rt, s, g, h, alg))

(***************************************************************************)
(* Graph notions the properties are stated with.  They are computed by     *)
(* enumerating paths, independently of the searches.                       *)
(***************************************************************************)
Range(seq) == {seq[i] : i \in 1..Len(seq)}

\* The weights of the edges u -> v.
EdgeWeights(rt, u, v) ==
    IF u \in DOMAIN rt THEN {rt[u][i][2] : i \in {j \in 1..Len(rt[u]) : rt[u][j][1] = v}}
    ELSE {}

HasEdge(rt, u, v) == EdgeWeights(rt, u, v) # {}

Successors(rt, u) == IF u \in DOMAIN rt THEN {rt[u][i][1] : i \in 1..Len(rt[u])} ELSE {}

\* The simple paths (no node twice) that extend `path` along edges up to g.
RECURSIVE SimplePathsFrom(_, _, _)
SimplePathsFrom(rt, path, g) ==
    IF path[Len(path)] = g THEN {path}
    ELSE UNION {SimplePathsFrom(rt, Append(path, v), g) :
                    v \in Successors(rt, path[Len(path)]) \ Range(path)}

SimplePaths(rt, s, g) == SimplePathsFrom(rt, <<s>>, g)

Reachable(rt, s, g) == SimplePaths(rt, s, g) # {}

SetMin(S) == CHOOSE x \in S : \A y \in S : x <= y

\* The sums of weights over the ways of choosing one edge per hop of `path`.
RECURSIVE PathCosts(_, _)
PathCosts(rt, path) ==
    IF Len(path) <= 1 THEN {0}
    ELSE {w + c : w \in EdgeWeights(rt, path[1], path[2]),
                  c \in PathCosts(rt, Tail(path))}

\* `path` follows edges of the graph.
IsPathOf(rt, path) == \A i \in 1..(Len(path) - 1) : HasEdge(rt, path[i], path[i + 1])

\* The least total weight of a path from s to g; Infinity when there is none.
\* Weights are not negative, so a walk that repeats a node costs at least as
\* much as the simple path it contains.
Distance(rt, s, g) ==
    IF ~Reachable(rt, s, g) THEN Infinity
    ELSE SetMin(UNION {PathCosts(rt, p) : p \in SimplePaths(rt, s, g)})

\* The least number of edges of a path from s to g.
Hops(rt, s, g) == SetMin({Len(p) - 1 : p \in SimplePaths(rt, s, g)})

\* h never overestimates the remaining cost to g.
Admissible(rt, g, h) == \A n \in DOMAIN rt : h[n] > 0 => h[n] <= Distance(rt, n, g)

\* h(g) = 0 and h(u) <= w + h(v) on every edge u -> v of weight w.
Consistent(rt, g, h) ==
    /\ h[g] = 0
    /\ \A u \in DOMAIN rt : \A i \in 1..Len(rt[u]) :
           rt[u][i][1] \in DOMAIN h => h[u] <= rt[u][i][2] + h[rt[u][i][1]]

(***************************************************************************)
(* The caller builds a graph, constructs an agent on it and calls it.      *)
(***************************************************************************)
\* len of all edge lists together
RECURSIVE EdgeCountOver(_, _)
EdgeCountOver(rt, nodes) ==
    IF nodes = {} THEN 0
    ELSE LET n == CHOOSE x \in nodes : TRUE
         IN  Len(rt[n]) + EdgeCountOver(rt, nodes \ {n})

EdgeCount(rt) == EdgeCountOver(rt, DOMAIN rt)

\* The heuristic h(n, goal) = 0 for every n.
ZeroHeuristic == [n \in Keys |-> 0]

\* The edge weights of the graphs the caller builds: 0.0 .. MaxWeight.
Weights == {w * One : w \in 0..MaxWeight}

\* The heuristics a caller may supply: h(n, goal) in 0.0 .. MaxH on every key.
Heuristics == [Keys -> {v * One : v \in 0..MaxH}]

\* The (algorithm, heuristic) pairs agents are constructed with.
AgentConfigs ==
    {<<DIJKSTRA, NoHeuristic>>, <<BFS, NoHeuristic>>, <<ASTAR, NoHeuristic>>,
     <<ASTAR, ZeroHeuristic>>}

\* The (start, goal) pairs agents are constructed with: a valid pair, a goal
\* that is no key, a start that is no key.
Endpoints == {<<"A", "D">>, <<"A", Missing>>, <<Missing, "D">>}
\* The pairs A* agents are constructed with.
AStarEndpoints == {<<"A", "D">>, <<"A", Missing>>}

\* The cost ceilings find_all_paths is called with; Infinity is the default.
MaxCosts == {Ceiling * One, Infinity}

\* The graphs the caller builds: node A has no incoming edge, as the virtual
\* start of a planning graph, and node D no outgoing edge, as the goal F of the
\* demo graph; the other nodes may lie on cycles.  No edge is a self-loop.
Sources == Keys \ {"D"}
Dests(node) == Keys \ {"A", node}

NoResult == [op |-> "none"]

Init ==
    /\ routes = [n \in Keys |-> <<>>]
    /\ start = None
    /\ goal = None
    /\ heuristic = NoHeuristic
    /\ algorithm = None
    /\ phase = "build"
    /\ result = NoResult
    /\ start_courses = <<>>
    /\ NoArbiter
    /\ NoServices

\* The caller appends one edge (dest, cost) to routes[node].
AddEdge(node, dest, cost) ==
    /\ phase = "build"
    /\ EdgeCount(routes) < MaxEdges
    /\ routes' = [routes EXCEPT ![node] = Append(@, <<dest, cost>>)]
    /\ UNCHANGED <<start, goal, heuristic, algorithm, phase, result, start_courses>>
    /\ UNCHANGED arbiterVars
    /\ UNCHANGED serviceVars

\* AdvancedGoalBasedAgent(routes, s, g, heuristic=h, algorithm=alg): the
\* fields are set, then validate_graph runs; when it raises there is no agent.
Construct(s, g, h, alg) ==
    /\ phase = "build"
    /\ IF ValidateGraph(routes, s, g)
       THEN /\ start' = s
            /\ goal' = g
            /\ heuristic' = h
            /\ algorithm' = alg
            /\ phase' = "ready"
            /\ result' = [op |-> "__init__", status |-> "ok",
                          warnings |-> Warnings(routes)]
       ELSE /\ phase' = "invalid"
            /\ result' = [op |-> "__init__", status |-> "ValueError",
                          start |-> s, goal |-> g]
            /\ UNCHANGED <<start, goal, heuristic, algorithm>>
    /\ UNCHANGED <<routes, start_courses>>
    /\ UNCHANGED arbiterVars
    /\ UNCHANGED serviceVars

CallDijkstra ==
    /\ phase = "ready"
    /\ result' = [op |-> "dijkstra_pathfinding",
                  ret |-> DijkstraPathfinding(routes, start, goal)]
    /\ phase' = "done"
    /\ UNCHANGED <<routes, start, goal, heuristic, algorithm, start_courses>>
    /\ UNCHANGED arbiterVars
    /\ UNCHANGED serviceVars

CallAStar ==
    /\ phase = "ready"
    /\ result' = [op |-> "astar_pathfinding",
                  ret |-> AStarPathfinding(routes, start, goal, heuristic)]
    /\ phase' = "done"
    /\ UNCHANGED <<routes, start, goal, heuristic, algorithm, start_courses>>
    /\ UNCHANGED arbiterVars
    /\ UNCHANGED serviceVars

CallBfs ==
    /\ phase = "ready"
    /\ result' = [op |-> "bfs_pathfinding",
                  ret |-> BfsPathfinding(routes, start, goal)]
    /\ phase' = "done"
    /\ UNCHANGED <<routes, start, goal, heuristic, algorithm, start_courses>>
    /\ UNCHANGED arbiterVars
    /\ UNCHANGED serviceVars

CallFindAllPaths(max_cost) ==
    /\ phase = "ready"
    /\ result' = [op |-> "find_all_paths", max_cost |-> max_cost,
                  ret |-> FindAllPaths(routes, start, goal, max_cost)]
    /\ phase' = "done"
    /\ UNCHANGED <<routes, start, goal, heuristic, algorithm, start_courses>>
    /\ UNCHANGED arbiterVars
    /\ UNCHANGED serviceVars

CallPlan ==
    /\ phase = "ready"
    /\ result' = [op |-> "plan",
                  ret |-> PlanOf(routes, start, goal, heuristic, algorithm)]
    /\ phase' = "done"
    /\ UNCHANGED <<routes, start, goal, heuristic, algorithm, start_courses>>
    /\ UNCHANGED arbiterVars
    /\ UNCHANGED serviceVars

CallGetPathDetails ==
    /\ phase = "ready"
    /\ result' = [op |-> "get_path_details",
                  ret |-> PathDetails(routes, start, goal, heuristic, algorithm)]
    /\ phase' = "done"
    /\ UNCHANGED <<routes, start, goal, heuristic, algorithm, start_courses>>
    /\ UNCHANGED arbiterVars
    /\ UNCHANGED serviceVars

BuildGraph ==
    \E node \in Sources, cost \in Weights :
        \E dest \in Dests(node) : AddEdge(node, dest, cost)

Next ==
    \/ BuildGraph
    \/ \E e \in Endpoints, c \in AgentConfigs : Construct(e[1], e[2], c[2], c[1])
    \/ CallDijkstra
    \/ CallAStar
    \/ CallBfs
    \/ \E max_cost \in MaxCosts : CallFindAllPaths(max_cost)
    \/ CallPlan
    \/ CallGetPathDetails

Spec == Init /\ [][Next]_vars

\* Graphs with edges that point to a node that is no key, and the three
\* searches on them.
BuildDangling ==
    \E node \in Sources, cost \in Weights :
        \E dest \in Dests(node) \cup {Missing} : AddEdge(node, dest, cost)

\* The (algorithm, heuristic) pairs the agents on these graphs have.
SearchConfigs ==
    {<<DIJKSTRA, NoHeuristic>>, <<BFS, NoHeuristic>>, <<ASTAR, ZeroHeuristic>>}

NextDangling ==
    \/ BuildDangling
    \/ \E c \in SearchConfigs : Construct("A", "D", c[2], c[1])
    \/ CallDijkstra
    \/ CallAStar
    \/ CallBfs

SpecDangling == Init /\ [][NextDangling]_vars

\* Graphs whose edges weigh 0.0 .. MaxDetour, where one edge can weigh more
\* than twice a whole path, and get_path_details on them.
BuildDetour ==
    \E node \in Sources, w \in 0..MaxDetour :
        \E dest \in Dests(node) : AddEdge(node, dest, w * One)

NextDetails ==
    \/ BuildDetour
    \/ \E c \in SearchConfigs : Construct("A", "D", c[2], c[1])
    \/ CallGetPathDetails

SpecDetails == Init /\ [][NextDetails]_vars

\* The heuristics of Heuristics that are admissible for goal g.
\* Where the goal is no key, construction fails whatever the heuristic is,
\* and one heuristic stands for all.
AdmissibleHeuristics(rt, g) ==
    IF g \notin DOMAIN rt THEN {ZeroHeuristic}
    ELSE LET dist == [n \in DOMAIN rt |-> Distance(rt, n, g)]
         IN  {h \in Heuristics : \A n \in DOMAIN rt : h[n] <= dist[n]}

\* A* agents with a caller-supplied admissible heuristic.
NextAStar ==
    \/ BuildGraph
    \/ /\ phase = "build"
       /\ \E e \in AStarEndpoints : \E h \in AdmissibleHeuristics(routes, e[2]) :
              Construct(e[1], e[2], h, ASTAR)
    \/ CallAStar

SpecAStar == Init /\ [][NextAStar]_vars

(***************************************************************************)
(* EnhancedLearningPathAdvisor: the catalog and the weighted graph         *)
(***************************************************************************)
\* LearningStyle
FASTEST == "fastest"
EASIEST == "easiest"
BALANCED == "balanced"
CHALLENGING == "challenging"
LearningStyle == {FASTEST, EASIEST, BALANCED, CHALLENGING}

\* course_prerequisites, in the order of the dictionary: the six courses
\* that make up the prerequisite closure of Machine Learning and Database
\* Systems.  Every path to a course runs through its prerequisite closure
\* only, so the searches on this excerpt are the searches on the catalog.
course_prerequisites ==
    << [course |-> "Python Basics", prereqs |-> <<>>],
       [course |-> "Python Intermediate", prereqs |-> <<"Python Basics">>],
       [course |-> "Data Structures", prereqs |-> <<"Python Intermediate">>],
       [course |-> "Algorithms", prereqs |-> <<"Data Structures">>],
       [course |-> "Database Systems", prereqs |-> <<"Python Basics">>],
       [course |-> "Machine Learning", prereqs |-> <<"Data Structures", "Algorithms">>] >>

\* The keys of course_prerequisites.
Courses == {course_prerequisites[i].course : i \in 1..Len(course_prerequisites)}

Attrs(d, t, u, p) ==
    [difficulty |-> d, time_hours |-> t, utility |-> u, prerequisites_count |-> p]

\* course_attributes of the same courses.
course_attributes ==
    [c \in Courses |->
        CASE c = "Python Basics" -> Attrs(3, 20, 8, 0)
          [] c = "Python Intermediate" -> Attrs(5, 30, 7, 1)
          [] c = "Data Structures" -> Attrs(7, 40, 9, 1)
          [] c = "Algorithms" -> Attrs(8, 50, 10, 1)
          [] c = "Database Systems" -> Attrs(6, 30, 8, 1)
          [] c = "Machine Learning" -> Attrs(9, 60, 10, 2)]

\* A weight map, in tenths: base(7, 2, 1, 0) is time 0.7, difficulty 0.2,
\* utility 0.1, prereq 0.0.
WeightMap(t, d, u, p) == [time |-> t, difficulty |-> d, utility |-> u, prereq |-> p]

\* The default weights of a learning style.
DefaultForStyle(learning_style) ==
    CASE learning_style = FASTEST -> WeightMap(7, 2, 1, 0)
      [] learning_style = EASIEST -> WeightMap(2, 6, 2, 0)
      [] learning_style = CHALLENGING -> WeightMap(2, 2, 5, 1)
      [] OTHER -> WeightMap(4, 3, 2, 1)

\* cost_weights=None.  An empty override stands for it: every key then
\* falls back to the default of the style, which is what None selects.
NoCostWeights == << >>

\* base_weights: the override merged with the defaults of the style.
BaseWeights(learning_style, cost_weights) ==
    [k \in {"time", "difficulty", "utility", "prereq"} |->
        Get(cost_weights, k, DefaultForStyle(learning_style)[k])]

\* Mutant: a weight that is not positive is kept.
EdgeWeightUnguarded(course, base_weights) ==
    LET attrs == course_attributes[course]
        total_w == base_weights.time + base_weights.difficulty
                       + base_weights.utility + base_weights.prereq
        numerator == base_weights.time * attrs.time_hours
                     + 10 * (base_weights.difficulty * attrs.difficulty
                             + base_weights.utility * (10 - attrs.utility)
                             + base_weights.prereq * attrs.prerequisites_count)
    IN  IF total_w = 0 THEN One * attrs.difficulty
        ELSE (numerator * One) \div (10 * total_w)

\* The weight of the edges into `course`, in units of 1 / One.  The weights
\* are normalised by their sum total_w (in tenths); a sum of zero falls back
\* to the difficulty alone, and a weight that is not positive is replaced by
\* max(difficulty, 1.0).  The weight numerator / (10 * total_w) is not
\* positive when numerator and total_w differ in sign or numerator is 0.
EdgeWeight(course, base_weights) ==
    LET attrs == course_attributes[course]
        total_w == base_weights.time + base_weights.difficulty
                       + base_weights.utility + base_weights.prereq
        \* tenths of weight times tenths of component
        numerator == base_weights.time * attrs.time_hours
                     + 10 * (base_weights.difficulty * attrs.difficulty
                             + base_weights.utility * (10 - attrs.utility)
                             + base_weights.prereq * attrs.prerequisites_count)
        weight == IF total_w = 0 THEN One * attrs.difficulty
                  ELSE (numerator * One) \div (10 * total_w)
    IN  IF (total_w = 0 /\ attrs.difficulty <= 0)
           \/ (total_w # 0 /\ numerator * total_w <= 0)
        THEN (IF attrs.difficulty > 1 THEN One * attrs.difficulty ELSE One)
        ELSE weight

\* for prereq in prereqs, from prerequisite j on: the edge prereq -> course.
RECURSIVE AddPrereqEdges(_, _, _, _, _)
AddPrereqEdges(graph, course, prereqs, j, weight) ==
    IF j > Len(prereqs) THEN graph
    ELSE IF prereqs[j] \in DOMAIN graph
    THEN AddPrereqEdges([graph EXCEPT ![prereqs[j]] = Append(@, <<course, weight>>)],
             course, prereqs, j + 1, weight)
    ELSE AddPrereqEdges(graph, course, prereqs, j + 1, weight)

\* for course, prereqs in self.course_prerequisites.items(), from entry i on.
RECURSIVE AddCourseEdges(_, _, _)
AddCourseEdges(graph, i, base_weights) ==
    IF i > Len(course_prerequisites) THEN graph
    ELSE LET entry == course_prerequisites[i]
         IN  AddCourseEdges(
                 AddPrereqEdges(graph, entry.course, entry.prereqs, 1,
                     EdgeWeight(entry.course, base_weights)),
                 i + 1, base_weights)

\* _build_weighted_graph
BuildWeightedGraph(learning_style, cost_weights) ==
    AddCourseEdges([c \in Courses |-> <<>>], 1, BaseWeights(learning_style, cost_weights))

(***************************************************************************)
(* find_learning_path and get_learning_path                                *)
(***************************************************************************)
VirtualStart == "virtual_start"

\* path_str.replace('virtual_start -> ', '', 1) when path_str starts with it.
StripVirtualStart(path_str) ==
    IF path_str = None THEN None
    ELSE IF Len(path_str) >= 2 /\ path_str[1] = VirtualStart /\ path_str[2] = Arrow
    THEN SubSeq(path_str, 3, Len(path_str))
    ELSE path_str

\* A call that raised `exc` instead of returning a dictionary.
Failure(exc) == [status |-> exc]

\* find_learning_path: the result dictionary, or the exception raised by the
\* constructor of the agent, by plan() or by get_path_details().
\* Mutant: the edges of the virtual start node cost 1.0.
VirtualStartEdgesCostly(known) == [i \in 1..Len(known) |-> <<known[i], One>>]

\* The edges of the virtual start node: one of cost 0.0 to every start
\* course that is in the weighted graph, in the order of the list.
VirtualStartEdges(known) == [i \in 1..Len(known) |-> <<known[i], 0>>]

\* temp_graph: the weighted graph with the virtual start node.
WithVirtualStart(weighted_graph, completed) ==
    Put(weighted_graph, VirtualStart,
        VirtualStartEdges(
            LET Known(c) == c \in DOMAIN weighted_graph IN SelectSeq(completed, Known)))

TempGraph(completed, learning_style, cost_weights) ==
    WithVirtualStart(BuildWeightedGraph(learning_style, cost_weights), completed)

\* The dictionary find_learning_path returns, or the exception of
\* get_path_details().
LearningPathReturn(completed, goal_course, learning_style, alg, cost, path, path_details) ==
    IF path_details.status # "ok" THEN Failure(path_details.status)
    ELSE [status |-> "ok",
          success |-> path # None /\ cost # Infinity,
          path |-> path,
          path_list |-> IF path # None THEN Split(path) ELSE <<>>,
          total_cost |-> cost,
          start_courses |-> completed,
          goal_course |-> goal_course,
          learning_style |-> learning_style,
          algorithm_used |-> alg,
          path_details |-> path_details]

\* find_learning_path once plan() returned `planned`, or raised.
AfterPlan(temp_graph, completed, goal_course, learning_style, alg, planned) ==
    IF planned.status # "ok" THEN Failure(planned.status)
    ELSE LearningPathReturn(completed, goal_course, learning_style, alg,
             planned.cost, StripVirtualStart(planned.path_str),
             PathDetails(temp_graph, VirtualStart, goal_course, NoHeuristic, alg))

\* find_learning_path on temp_graph: the agent is constructed, which
\* validates the graph, then plan() runs.
PlanOnGraph(temp_graph, completed, goal_course, learning_style, alg) ==
    IF ~ValidateGraph(temp_graph, VirtualStart, goal_course)
    THEN Failure("ValueError")
    ELSE AfterPlan(temp_graph, completed, goal_course, learning_style, alg,
             PlanOf(temp_graph, VirtualStart, goal_course, NoHeuristic, alg))

FindLearningPath(completed, goal_course, learning_style, alg, cost_weights) ==
    PlanOnGraph(TempGraph(completed, learning_style, cost_weights),
                completed, goal_course, learning_style, alg)

\* str.lower() on the tokens the callers send.
Lower(token) ==
    CASE token = "BFS" -> "bfs"
      [] token = "Dijkstra" -> "dijkstra"
      [] token = "Balanced" -> "balanced"
      [] OTHER -> token

\* Mutant: a token that names no algorithm selects BFS.
AlgorithmEnumOrBfs(token) ==
    IF Lower(token) \in PathfindingAlgorithm THEN Lower(token) ELSE BFS

\* try: PathfindingAlgorithm(algorithm.lower())
\* except ValueError: PathfindingAlgorithm.DIJKSTRA
AlgorithmEnum(token) ==
    IF Lower(token) \in PathfindingAlgorithm THEN Lower(token) ELSE DIJKSTRA

\* get_learning_path: LearningStyle(learning_style.lower()) raises ValueError
\* for a token that names no style.
GetLearningPathResult(completed, goal_course, style_token, algorithm_token, cost_weights) ==
    IF Lower(style_token) \notin LearningStyle THEN Failure("ValueError")
    ELSE FindLearningPath(completed, goal_course, Lower(style_token),
                          AlgorithmEnum(algorithm_token), cost_weights)

(***************************************************************************)
(* The caller of get_learning_path: a learner completes courses, then      *)
(* asks for a path.                                                        *)
(***************************************************************************)
\* The longest list of completed courses.
MaxCompleted == 2

\* A course name that is not in the catalog.
UnknownCourse == "Astrology"
CourseNames == Courses \cup {UnknownCourse}

\* The courses learners report as completed: the root of the catalog, a
\* course in the middle, a course nothing follows, and the unknown one.
CompletedNames == {"Python Basics", "Data Structures", "Machine Learning", UnknownCourse}

StyleTokens == {"fastest", "easiest", "balanced", "challenging", "Balanced", "relaxed"}
AlgorithmTokens == {"dijkstra", "astar", "bfs", "BFS", "Dijkstra", "greedy", ""}

\* The cost_weights the callers send: none, all zero, time alone, a
\* negative time weight against a utility weight, and a negative time
\* weight against a difficulty weight with a negative sum.
CostWeights ==
    {NoCostWeights, WeightMap(0, 0, 0, 0), WeightMap(10, 0, 0, 0),
     WeightMap(-10, 0, 20, 0), WeightMap(-20, 10, 0, 0)}

InitAdvisor ==
    /\ routes = << >>
    /\ start = None
    /\ goal = None
    /\ heuristic = NoHeuristic
    /\ algorithm = None
    /\ phase = "build"
    /\ result = NoResult
    /\ start_courses = <<>>
    /\ NoArbiter
    /\ NoServices

\* The learner reports one more completed course.
Complete(course) ==
    /\ phase = "build"
    /\ Len(start_courses) < MaxCompleted
    /\ start_courses' = Append(start_courses, course)
    /\ UNCHANGED <<routes, start, goal, heuristic, algorithm, phase, result>>
    /\ UNCHANGED arbiterVars
    /\ UNCHANGED serviceVars

\* get_learning_path(start_courses, goal_course, learning_style, algorithm,
\* cost_weights).  The agent it plans with is left in the agent variables
\* when its construction succeeded.
GetLearningPath(goal_course, style_token, algorithm_token, cost_weights) ==
    /\ phase = "build"
    /\ result' = [op |-> "get_learning_path",
                  goal_course |-> goal_course,
                  learning_style |-> style_token,
                  algorithm |-> algorithm_token,
                  cost_weights |-> cost_weights,
                  ret |-> GetLearningPathResult(start_courses, goal_course,
                              style_token, algorithm_token, cost_weights)]
    /\ phase' = "done"
    /\ IF Lower(style_token) \in LearningStyle /\ goal_course \in Courses
       THEN /\ routes' = TempGraph(start_courses, Lower(style_token), cost_weights)
            /\ start' = VirtualStart
            /\ goal' = goal_course
            /\ heuristic' = NoHeuristic
            /\ algorithm' = AlgorithmEnum(algorithm_token)
       ELSE UNCHANGED <<routes, start, goal, heuristic, algorithm>>
    /\ UNCHANGED start_courses
    /\ UNCHANGED arbiterVars
    /\ UNCHANGED serviceVars

NextAdvisor ==
    \/ \E course \in CompletedNames : Complete(course)
    \/ \E goal_course \in CourseNames, style_token \in StyleTokens,
          algorithm_token \in AlgorithmTokens, cost_weights \in CostWeights :
              GetLearningPath(goal_course, style_token, algorithm_token, cost_weights)

SpecAdvisor == InitAdvisor /\ [][NextAdvisor]_vars

(***************************************************************************)
(* AdvancedUtilityBasedAgent.  A probability p is carried as the integer   *)
(* Certain * p (hundredths), a utility as an integer, and an expected      *)
(* utility, being a sum of products, in hundredths of a utility unit.      *)
(* Rounding of floats is not modelled.  The dict `actions` is a sequence   *)
(* of [name, outcomes] in insertion order, the order Python iterates in.   *)
(* The strategy EVK ranks actions by expected utility minus standard       *)
(* deviation, a real number; agents with that strategy are not modelled.   *)
(***************************************************************************)
\* The probability 1.
Certain == 100

\* DecisionStrategy
MEU == "meu"
MINIMAX == "minimax"
DecisionStrategy == {MEU, MINIMAX}

\* float('-inf')
NegInfinity == -Infinity

Outcome(probability, utility) ==
    [probability |-> probability, utility |-> utility]

\* ACTION_OUTCOMES of the demo.
ConservativeInvestment ==
    [name |-> "Conservative Investment",
     outcomes |-> <<Outcome(80, 50), Outcome(20, 30)>>]
ModerateInvestment ==
    [name |-> "Moderate Investment",
     outcomes |-> <<Outcome(60, 80), Outcome(30, 20), Outcome(10, -40)>>]
AggressiveInvestment ==
    [name |-> "Aggressive Investment",
     outcomes |-> <<Outcome(40, 150), Outcome(40, 10), Outcome(20, -100)>>]
ACTION_OUTCOMES ==
    <<ConservativeInvestment, ModerateInvestment, AggressiveInvestment>>

\* total_probability of validate_actions.
RECURSIVE TotalProbability(_)
TotalProbability(outcomes) ==
    IF outcomes = <<>> THEN 0
    ELSE Head(outcomes).probability + TotalProbability(Tail(outcomes))

\* Mutant: only a probability above 1 is rejected.
ProbabilityAtMostOne(outcome) == outcome.probability <= Certain

\* 0 <= outcome['probability'] <= 1
ProbabilityInRange(outcome) ==
    0 <= outcome.probability /\ outcome.probability <= Certain

\* The action passes the checks of validate_actions that raise.
ActionAccepted(action) ==
    /\ action.outcomes # <<>>
    /\ \A i \in 1..Len(action.outcomes) : ProbabilityInRange(action.outcomes[i])

\* validate_actions prints a warning for the action: the probabilities sum
\* to something positive that is not within 0.01 of 1.
Warned(action) ==
    /\ TotalProbability(action.outcomes) # Certain
    /\ TotalProbability(action.outcomes) > 0

\* validate_actions(): raises ValueError at the first action without
\* outcomes or with a probability outside [0, 1]; otherwise returns, having
\* printed the warnings.
ValidateActions(acts) ==
    IF \E i \in 1..Len(acts) : ~ActionAccepted(acts[i])
    THEN [status |-> "ValueError"]
    ELSE [status |-> "ok",
          warnings |-> {acts[i].name : i \in {j \in 1..Len(acts) : Warned(acts[j])}}]

\* Mutant: the probabilities are ignored.
RECURSIVE TotalUtility(_)
TotalUtility(outcomes) ==
    IF outcomes = <<>> THEN 0
    ELSE Certain * Head(outcomes).utility + TotalUtility(Tail(outcomes))

\* calculate_expected_utility(outcomes) without a utility_function:
\* the sum of probability * utility.
RECURSIVE CalculateExpectedUtility(_)
CalculateExpectedUtility(outcomes) ==
    IF outcomes = <<>> THEN 0
    ELSE Head(outcomes).probability * Head(outcomes).utility
         + CalculateExpectedUtility(Tail(outcomes))

\* min(outcome['utility'] for outcome in outcomes), in hundredths.
WorstOutcome(outcomes) ==
    Certain * (CHOOSE u \in {outcomes[i].utility : i \in 1..Len(outcomes)} :
                  \A i \in 1..Len(outcomes) : u <= outcomes[i].utility)

\* Mutant: among equal greatest values the last one wins.
LastMax(values) ==
    CHOOSE i \in 1..Len(values) :
        /\ \A j \in 1..Len(values) : values[j] <= values[i]
        /\ \A j \in (i + 1)..Len(values) : values[j] < values[i]

\* max(d, key=d.get) over a dict whose values are `values` in insertion
\* order: the position of the first greatest value.
FirstMax(values) ==
    CHOOSE i \in 1..Len(values) :
        /\ \A j \in 1..Len(values) : values[j] <= values[i]
        /\ \A j \in 1..(i - 1) : values[j] < values[i]

\* utility_results of decide().
UtilityResults(acts) ==
    [i \in 1..Len(acts) |-> CalculateExpectedUtility(acts[i].outcomes)]

\* worst_outcomes of calculate_minimax_decision().
WorstOutcomes(acts) ==
    [i \in 1..Len(acts) |-> WorstOutcome(acts[i].outcomes)]

\* The MEU branch of decide() once utility_results is computed.
MeuDecision(acts, utility_results) ==
    IF utility_results = <<>>
    THEN [status |-> "ok", best_action |-> "No valid actions",
          best_utility |-> NegInfinity, strategy_used |-> None,
          all_utilities |-> <<>>]
    ELSE [status |-> "ok",
          best_action |-> acts[FirstMax(utility_results)].name,
          best_utility |-> utility_results[FirstMax(utility_results)],
          strategy_used |-> "Maximum Expected Utility",
          all_utilities |-> utility_results]

\* calculate_minimax_decision() once worst_outcomes is computed, and the
\* MINIMAX branch of decide(); max() of an empty dict raises ValueError.
MinimaxDecision(acts, worst_outcomes) ==
    IF worst_outcomes = <<>>
    THEN [status |-> "ValueError"]
    ELSE [status |-> "ok",
          best_action |-> acts[FirstMax(worst_outcomes)].name,
          best_utility |-> worst_outcomes[FirstMax(worst_outcomes)],
          strategy_used |-> "Minimax"]

\* decide()
Decide(acts, strategy) ==
    IF strategy = MEU THEN MeuDecision(acts, UtilityResults(acts))
    ELSE IF strategy = MINIMAX THEN MinimaxDecision(acts, WorstOutcomes(acts))
    ELSE [status |-> "ValueError"]

Abs(x) == IF x < 0 THEN -x ELSE x

RECURSIVE GCD(_, _)
GCD(a, b) == IF b = 0 THEN a ELSE GCD(b, a % b)

\* The variance and the standard deviation are real numbers.  They are
\* computed exactly in the greatest unit that makes the expected utility and
\* every utility of the action whole: the unit, in hundredths.
RECURSIVE UnitOver(_, _)
UnitOver(outcomes, unit) ==
    IF outcomes = <<>> THEN unit
    ELSE UnitOver(Tail(outcomes), GCD(unit, Abs(Certain * Head(outcomes).utility)))

Unit(outcomes, expected_utility) ==
    IF UnitOver(outcomes, Abs(expected_utility)) = 0 THEN 1
    ELSE UnitOver(outcomes, Abs(expected_utility))

\* sum(p * (u - expected_utility)**2 ...), with u - expected_utility in units
\* and p in hundredths.
RECURSIVE Variance(_, _, _)
Variance(outcomes, expected_utility, unit) ==
    IF outcomes = <<>> THEN 0
    ELSE Head(outcomes).probability
            * ((Certain * Head(outcomes).utility - expected_utility) \div unit)
            * ((Certain * Head(outcomes).utility - expected_utility) \div unit)
         + Variance(Tail(outcomes), expected_utility, unit)

\* max(utilities) - min(utilities)
UtilityRange(outcomes) ==
    LET utilities == {outcomes[i].utility : i \in 1..Len(outcomes)}
    IN  (CHOOSE u \in utilities : \A v \in utilities : v <= u)
        - (CHOOSE u \in utilities : \A v \in utilities : u <= v)

\* Mutant: a ratio of exactly 0.5 still counts as low, one of 1.0 as medium.
DetermineRiskLevelInclusive(variance, expected_utility) ==
    IF variance = 0 THEN "Risk-free"
    ELSE IF expected_utility > 0
            /\ 4 * variance <= Certain * expected_utility * expected_utility
    THEN "Low Risk"
    ELSE IF expected_utility > 0
            /\ variance <= Certain * expected_utility * expected_utility
    THEN "Medium Risk"
    ELSE "High Risk"

\* _determine_risk_level(std_dev, expected_utility), with the variance and
\* the expected utility in units: std_dev is sqrt(variance / Certain), so
\* std_dev / expected_utility < 0.5 is 4 * variance < Certain * eu^2.
DetermineRiskLevel(variance, expected_utility) ==
    IF variance = 0 THEN "Risk-free"
    ELSE IF expected_utility > 0
            /\ 4 * variance < Certain * expected_utility * expected_utility
    THEN "Low Risk"
    ELSE IF expected_utility > 0
            /\ variance < Certain * expected_utility * expected_utility
    THEN "Medium Risk"
    ELSE "High Risk"

\* risk_analysis[action] once expected_utility is computed.
RiskInUnits(action, expected_utility, unit) ==
    [name |-> action.name,
     expected_utility |-> expected_utility,
     utility_range |-> UtilityRange(action.outcomes),
     risk_level |-> DetermineRiskLevel(
                        Variance(action.outcomes, expected_utility, unit),
                        expected_utility \div unit)]

RiskOf(action, expected_utility) ==
    RiskInUnits(action, expected_utility, Unit(action.outcomes, expected_utility))

\* analyze_risk_profile(): one entry per action, in the order of the dict.
AnalyzeRiskProfile(acts) ==
    [i \in 1..Len(acts) |->
        RiskOf(acts[i], CalculateExpectedUtility(acts[i].outcomes))]

(***************************************************************************)
(* The callers of the utility agent.                                       *)
(***************************************************************************)
MaxActions == 2
MaxOutcomes == 2

\* Outcomes with a probability of 0, 0.5 or 1, and two whose probability is
\* out of range.
Utilities == {-30, 0, 10, 30}
Outcomes ==
    {Outcome(p, u) : p \in {0, 50, Certain}, u \in Utilities}
        \cup {Outcome(-10, 10), Outcome(Certain + 10, 10)}
OutcomeLists == UNION {[1..n -> Outcomes] : n \in 0..MaxOutcomes}
OptionName(i) == IF i = 1 THEN "Option 1" ELSE IF i = 2 THEN "Option 2" ELSE "Option 3"

\* The caller adds one entry to the dict it will construct the agent with:
\* an action of the demo, or an action with any of the outcome lists.
DefineAction(action) ==
    /\ phase = "build"
    /\ Len(actions) < MaxActions
    /\ \A i \in 1..Len(actions) : actions[i].name # action.name
    /\ actions' = Append(actions, action)
    /\ UNCHANGED <<routes, start, goal, heuristic, algorithm, phase, result,
                   start_courses, decision_strategy, path_evaluation_factors,
                   best_paths, advisor>>
    /\ UNCHANGED serviceVars

\* AdvancedUtilityBasedAgent(actions, decision_strategy=strategy): the fields
\* are set, then validate_actions runs; when it raises there is no agent.
ConstructUtilityAgent(strategy) ==
    /\ phase = "build"
    /\ result' = [op |-> "AdvancedUtilityBasedAgent",
                  ret |-> ValidateActions(actions)]
    /\ IF \A i \in 1..Len(actions) : ActionAccepted(actions[i])
       THEN decision_strategy' = strategy /\ phase' = "ready"
       ELSE UNCHANGED decision_strategy /\ phase' = "invalid"
    /\ UNCHANGED <<routes, start, goal, heuristic, algorithm, start_courses,
                   actions, path_evaluation_factors, best_paths, advisor>>
    /\ UNCHANGED serviceVars

CallDecide ==
    /\ phase = "ready"
    /\ result' = [op |-> "decide", ret |-> Decide(actions, decision_strategy)]
    /\ phase' = "done"
    /\ UNCHANGED <<routes, start, goal, heuristic, algorithm, start_courses>>
    /\ UNCHANGED arbiterVars
    /\ UNCHANGED serviceVars

CallAnalyzeRiskProfile ==
    /\ phase = "ready"
    /\ result' = [op |-> "analyze_risk_profile", ret |-> AnalyzeRiskProfile(actions)]
    /\ phase' = "done"
    /\ UNCHANGED <<routes, start, goal, heuristic, algorithm, start_courses>>
    /\ UNCHANGED arbiterVars
    /\ UNCHANGED serviceVars

NextUtility ==
    \/ \E i \in 1..Len(ACTION_OUTCOMES) : DefineAction(ACTION_OUTCOMES[i])
    \/ \E outcomes \in OutcomeLists :
          DefineAction([name |-> OptionName(Len(actions) + 1), outcomes |-> outcomes])
    \/ \E strategy \in DecisionStrategy : ConstructUtilityAgent(strategy)
    \/ CallDecide
    \/ CallAnalyzeRiskProfile

SpecUtility == Init /\ [][NextUtility]_vars

(***************************************************************************)
(* HybridAgent.  Its utilities are carried in units of 1 / (2 * One), in   *)
(* which base_utility * 1.5 is whole; its probabilities in hundredths.     *)
(***************************************************************************)
\* The utility 1.0.
UtilityOne == 2 * One

\* Mutant: the complication probability is not capped.
ComplicationProbUncapped(path) ==
    10 + 2 * ((IF Len(path) - 1 > 1 THEN Len(path) - 1 ELSE 1) - 1)

\* complication_prob = min(0.1 + 0.02 * (path_length - 1), 0.4) with
\* path_length = max(len(path) - 1, 1)
ComplicationProb(path) ==
    LET path_length == IF Len(path) - 1 > 1 THEN Len(path) - 1 ELSE 1
    IN  IF 10 + 2 * (path_length - 1) < 40 THEN 10 + 2 * (path_length - 1) ELSE 40

\* The loop of _apply_evaluation_factors over the nodes of the path.
RECURSIVE NodePenalties(_, _)
NodePenalties(path, node_penalties) ==
    IF path = <<>> THEN 0
    ELSE Get(node_penalties, Head(path), 0)
         + NodePenalties(Tail(path), node_penalties)

\* _apply_evaluation_factors(base_utility, path)
ApplyEvaluationFactors(base_utility, path, factors) ==
    base_utility
    + (IF "path_length_factor" \in DOMAIN factors
       THEN Len(path) * factors.path_length_factor ELSE 0)
    + (IF "node_penalties" \in DOMAIN factors
       THEN NodePenalties(path, factors.node_penalties) ELSE 0)

\* The two outcomes evaluate_paths_with_utility builds for one path.
PathOutcomes(path, base_cost, factors) ==
    << Outcome(IF Certain - ComplicationProb(path) > 0
               THEN Certain - ComplicationProb(path) ELSE 0,
               IF factors # <<>>
               THEN ApplyEvaluationFactors(-(2 * base_cost), path, factors)
               ELSE -(2 * base_cost)),
       Outcome(ComplicationProb(path), (3 * (-(2 * base_cost))) \div 2) >>

\* f"Path_{i+1}_({' -> '.join(path)})"
PathName(i, path) == <<"Path_", ToString(i), "_(">> \o Join(path) \o <<")">>

\* action_outcomes of evaluate_paths_with_utility.
ActionOutcomes(paths, factors) ==
    [i \in 1..Len(paths) |->
        [name |-> PathName(i, paths[i].path),
         outcomes |-> PathOutcomes(paths[i].path, paths[i].cost, factors)]]

\* What evaluate_paths_with_utility returns once the utility agent decided.
EvaluationReturn(action_outcomes, decision) ==
    IF decision.status # "ok" THEN Failure(decision.status)
    ELSE [status |-> "ok",
          best_path |-> decision.best_action,
          best_utility |-> decision.best_utility,
          all_paths_evaluation |-> action_outcomes,
          decision_info |-> decision.strategy_used]

\* The utility agent is constructed on action_outcomes, then decides by MEU.
EvaluationOf(action_outcomes) ==
    IF ValidateActions(action_outcomes).status # "ok" THEN Failure("ValueError")
    ELSE EvaluationReturn(action_outcomes, Decide(action_outcomes, MEU))

\* evaluate_paths_with_utility(paths)
EvaluatePathsWithUtility(paths, factors) ==
    EvaluationOf(ActionOutcomes(paths, factors))

\* Mutant: every path found is a candidate.
Untrimmed(all_paths, num_paths) == all_paths

\* all_paths[: max(num_paths, 0)]
Trimmed(all_paths, num_paths) ==
    IF all_paths.status # "ok" THEN all_paths
    ELSE [all_paths EXCEPT !.paths =
             SubSeq(@, 1, IF Len(@) < num_paths THEN Len(@)
                          ELSE IF num_paths > 0 THEN num_paths ELSE 0)]

\* find_multiple_paths(num_paths): an AdvancedGoalBasedAgent is constructed,
\* which validates the graph, and its find_all_paths() is trimmed.
FindMultiplePaths(rt, s, g, num_paths) ==
    IF ~ValidateGraph(rt, s, g) THEN [status |-> "ValueError", paths |-> <<>>]
    ELSE Trimmed(FindAllPaths(rt, s, g, Infinity), num_paths)

\* The part of the name between "(" and ")", split at " -> ".
PathNodes(best_path_name) ==
    Split(SubSeq(best_path_name, 4, Len(best_path_name) - 1))

\* make_decision once the paths are evaluated.
DecisionReturn(all_paths, evaluation) ==
    IF evaluation.status # "ok" THEN Failure(evaluation.status)
    ELSE [status |-> "ok",
          success |-> TRUE,
          best_path |-> evaluation.best_path,
          path_as_list |-> PathNodes(evaluation.best_path),
          best_utility |-> evaluation.best_utility,
          all_evaluated_paths |-> evaluation.all_paths_evaluation,
          num_paths_considered |-> Len(all_paths)]

\* make_decision once find_multiple_paths returned `found`, or raised.
DecisionOn(found, factors) ==
    IF found.status # "ok" THEN Failure(found.status)
    ELSE IF found.paths = <<>>
    THEN [status |-> "ok", success |-> FALSE, best_path |-> None,
          best_utility |-> NegInfinity]
    ELSE DecisionReturn(found.paths, EvaluatePathsWithUtility(found.paths, factors))

\* make_decision()
MakeDecision(rt, s, g, factors) ==
    DecisionOn(FindMultiplePaths(rt, s, g, 3), factors)

(***************************************************************************)
(* The callers of the hybrid agent.                                        *)
(***************************************************************************)
\* The graphs the hybrid agent is given: any choice of edges among A -> B,
\* A -> C, A -> D, B -> C, B -> D, C -> B, C -> D, with any of the weights;
\* a choice of -1 leaves the edge out.
Targets(node) ==
    CASE node = "A" -> <<"B", "C", "D">>
      [] node = "B" -> <<"C", "D">>
      [] node = "C" -> <<"B", "D">>
      [] OTHER -> <<>>

EdgeChoices ==
    [UNION {{<<n, Targets(n)[i]>> : i \in 1..Len(Targets(n))} : n \in Keys}
        -> Weights \cup {-1}]

RoutesOf(choice) ==
    [n \in Keys |->
        LET Chosen(d) == choice[<<n, d>>] # -1
            kept == SelectSeq(Targets(n), Chosen)
        IN  [i \in 1..Len(kept) |-> <<kept[i], choice[<<n, kept[i]>>]>>]]

\* path_evaluation_factors: none, a length factor of -0.5, node penalties
\* of -1 and -2, and both.
PathEvaluationFactors ==
    {<<>>,
     [path_length_factor |-> -(UtilityOne \div 2)],
     [node_penalties |-> [n \in {"B", "C"} |->
                            IF n = "B" THEN -UtilityOne ELSE -(2 * UtilityOne)]],
     [path_length_factor |-> -(UtilityOne \div 2),
      node_penalties |-> [n \in {"B", "C"} |->
                            IF n = "B" THEN -UtilityOne ELSE -(2 * UtilityOne)]]}

InitHybrid ==
    /\ routes \in {RoutesOf(choice) : choice \in EdgeChoices}
    /\ start = None
    /\ goal = None
    /\ heuristic = NoHeuristic
    /\ algorithm = None
    /\ phase = "build"
    /\ result = NoResult
    /\ start_courses = <<>>
    /\ NoArbiter
    /\ NoServices

\* HybridAgent(routes, s, g, path_evaluation_factors=factors): nothing is
\* validated.
ConstructHybrid(s, g, factors) ==
    /\ phase = "build"
    /\ start' = s
    /\ goal' = g
    /\ path_evaluation_factors' = factors
    /\ best_paths' = <<>>
    /\ phase' = "ready"
    /\ result' = [op |-> "HybridAgent", status |-> "ok"]
    /\ UNCHANGED <<routes, heuristic, algorithm, start_courses, actions,
                   decision_strategy, advisor>>
    /\ UNCHANGED serviceVars

\* make_decision(): find_multiple_paths stores the trimmed paths in
\* best_paths before they are evaluated.
CallMakeDecision ==
    /\ phase = "ready"
    /\ \E found \in {FindMultiplePaths(routes, start, goal, 3)} :
          /\ result' = [op |-> "make_decision",
                        ret |-> DecisionOn(found, path_evaluation_factors)]
          /\ best_paths' = IF found.status = "ok" THEN found.paths ELSE best_paths
    /\ phase' = "done"
    /\ UNCHANGED <<routes, start, goal, heuristic, algorithm, start_courses,
                   actions, decision_strategy, path_evaluation_factors, advisor>>
    /\ UNCHANGED serviceVars

NextHybrid ==
    \/ \E e \in Endpoints, factors \in PathEvaluationFactors :
          ConstructHybrid(e[1], e[2], factors)
    \/ CallMakeDecision

SpecHybrid == InitHybrid /\ [][NextHybrid]_vars

\* The longest path handed to evaluate_paths_with_utility, in edges.
MaxHops == 17

\* A list of k + 1 nodes from A to D.
Chain(k) ==
    [i \in 1..(k + 1) |->
        IF i = k + 1 THEN "D" ELSE IF i = 1 THEN "A"
        ELSE IF i % 2 = 0 THEN "B" ELSE "C"]

\* The (path, cost) lists handed to evaluate_paths_with_utility: one or two
\* paths of any length up to MaxHops, costing 0.5 or 3.0.
Candidates ==
    {[path |-> Chain(k), cost |-> c] : k \in 0..MaxHops, c \in {One \div 2, 3 * One}}
CandidateLists == {<<p>> : p \in Candidates} \cup {<<p, q>> : p, q \in Candidates}

CallEvaluatePaths(paths) ==
    /\ phase = "ready"
    /\ result' = [op |-> "evaluate_paths_with_utility", paths |-> paths,
                  ret |-> EvaluatePathsWithUtility(paths, path_evaluation_factors)]
    /\ phase' = "done"
    /\ UNCHANGED <<routes, start, goal, heuristic, algorithm, start_courses>>
    /\ UNCHANGED arbiterVars
    /\ UNCHANGED serviceVars

NextEvaluate ==
    \/ \E e \in Endpoints, factors \in PathEvaluationFactors :
          ConstructHybrid(e[1], e[2], factors)
    \/ \E paths \in CandidateLists : CallEvaluatePaths(paths)

SpecEvaluate == Init /\ [][NextEvaluate]_vars

(***************************************************************************)
(* The hybrid planning entry points on the catalog:                        *)
(* EnhancedLearningPathAdvisor.recommend_course_sequence and               *)
(* LearningPathAdvisorWithHybridAgent.                                     *)
(***************************************************************************)
\* [course for course in path_as_list if course != 'virtual_start']
CleanPath(path_as_list) ==
    LET Real(course) == course # VirtualStart IN SelectSeq(path_as_list, Real)

\* path_evaluation_factors of recommend_course_sequence; risk_tolerance is
\* in tenths.
RecommendFactors(temp_graph, risk_tolerance) ==
    [path_length_factor |-> -(UtilityOne \div 2),
     node_penalties |->
        [course \in DOMAIN course_attributes \cap DOMAIN temp_graph |->
            IF course_attributes[course].difficulty > 7
            THEN -((course_attributes[course].utility * risk_tolerance * UtilityOne) \div 10)
            ELSE 0]]

\* sum(self.course_attributes[course]['time_hours'] ...) over the list.
RECURSIVE TotalTime(_)
TotalTime(sequence_list) ==
    IF sequence_list = <<>> THEN 0
    ELSE (IF Head(sequence_list) \in DOMAIN course_attributes
          THEN course_attributes[Head(sequence_list)].time_hours ELSE 0)
         + TotalTime(Tail(sequence_list))

\* recommend_course_sequence once make_decision returned `decision`, or
\* raised: decision['path_as_list'] is a KeyError on the failure result.
RecommendReturn(completed, goal_course, learning_style, decision) ==
    IF decision.status # "ok" THEN Failure(decision.status)
    ELSE IF "path_as_list" \notin DOMAIN decision THEN Failure("KeyError")
    ELSE [status |-> "ok",
          success |-> decision.success,
          recommended_sequence |-> Join(CleanPath(decision.path_as_list)),
          sequence_list |-> CleanPath(decision.path_as_list),
          utility |-> decision.best_utility,
          total_time_hours |-> TotalTime(CleanPath(decision.path_as_list)),
          start_courses |-> completed,
          goal_course |-> goal_course,
          learning_style |-> learning_style]

RecommendOnGraph(temp_graph, completed, goal_course, learning_style, risk_tolerance) ==
    RecommendReturn(completed, goal_course, learning_style,
        MakeDecision(temp_graph, VirtualStart, goal_course,
                     RecommendFactors(temp_graph, risk_tolerance)))

\* recommend_course_sequence(start_courses, goal_course, learning_style,
\* risk_tolerance, cost_weights)
RecommendCourseSequence(completed, goal_course, learning_style, risk_tolerance, cost_weights) ==
    RecommendOnGraph(TempGraph(completed, learning_style, cost_weights),
        completed, goal_course, learning_style, risk_tolerance)

\* LearningPathAdvisorWithHybridAgent._build_course_graph, from entry i on:
\* the weight of an edge is the difficulty of the course it leads to.
RECURSIVE BuildCourseGraph(_, _)
BuildCourseGraph(graph, i) ==
    IF i > Len(course_prerequisites) THEN graph
    ELSE BuildCourseGraph(
             AddPrereqEdges(graph, course_prerequisites[i].course,
                 course_prerequisites[i].prereqs, 1,
                 One * course_attributes[course_prerequisites[i].course].difficulty),
             i + 1)

\* LearningPathAdvisorWithHybridAgent(): the fields after construction.
HybridAdvisor ==
    [course_prerequisites |-> course_prerequisites,
     course_attributes |-> course_attributes,
     course_graph |-> BuildCourseGraph([c \in Courses |-> <<>>], 1)]

\* find_optimal_learning_path adds 'virtual_start' to course_prerequisites
\* and to course_attributes of the advisor when it is not there yet.
WithVirtualCourse(self) ==
    IF \E i \in 1..Len(self.course_prerequisites) :
           self.course_prerequisites[i].course = VirtualStart
    THEN self
    ELSE [self EXCEPT
             !.course_prerequisites =
                 Append(@, [course |-> VirtualStart, prereqs |-> <<>>]),
             !.course_attributes =
                 Put(@, VirtualStart, [difficulty |-> 0, time_hours |-> 0, utility |-> 0])]

\* path_evaluation_factors of find_optimal_learning_path.
OptimalFactors(attributes) ==
    [path_length_factor |-> -(UtilityOne \div 2),
     node_penalties |->
        [course \in DOMAIN attributes |->
            -((attributes[course].utility * UtilityOne) \div 10)]]

\* find_optimal_learning_path once make_decision returned, or raised.
OptimalReturn(completed, goal_course, decision) ==
    IF decision.status # "ok" THEN Failure(decision.status)
    ELSE [status |-> "ok",
          success |-> decision.success,
          path |-> IF decision.success
                   THEN Join(CleanPath(decision.path_as_list)) ELSE None,
          path_list |-> IF decision.success
                        THEN CleanPath(decision.path_as_list) ELSE <<>>,
          utility |-> decision.best_utility,
          start_courses |-> completed,
          goal_course |-> goal_course,
          all_considered_paths |-> IF decision.success
                                   THEN decision.all_evaluated_paths ELSE <<>>]

\* find_optimal_learning_path(start_courses, goal_course) on the advisor
\* whose fields are `self`: what it returns.
FindOptimalLearningPath(self, completed, goal_course) ==
    OptimalReturn(completed, goal_course,
        MakeDecision(WithVirtualStart(self.course_graph, completed),
                     VirtualStart, goal_course,
                     OptimalFactors(WithVirtualCourse(self).course_attributes)))

(***************************************************************************)
(* The caller of the hybrid entry points.                                  *)
(***************************************************************************)
\* risk_tolerance, in tenths: the default.
RiskTolerances == {5}

ConstructHybridAdvisor ==
    /\ phase = "build"
    /\ advisor = <<>>
    /\ advisor' = HybridAdvisor
    /\ UNCHANGED <<routes, start, goal, heuristic, algorithm, phase, result,
                   start_courses, actions, decision_strategy,
                   path_evaluation_factors, best_paths>>
    /\ UNCHANGED serviceVars

CallFindOptimalLearningPath(goal_course) ==
    /\ phase = "build"
    /\ advisor # <<>>
    /\ result' = [op |-> "find_optimal_learning_path",
                  goal_course |-> goal_course,
                  ret |-> FindOptimalLearningPath(advisor, start_courses, goal_course)]
    /\ advisor' = WithVirtualCourse(advisor)
    /\ phase' = "done"
    /\ UNCHANGED <<routes, start, goal, heuristic, algorithm, start_courses,
                   actions, decision_strategy, path_evaluation_factors, best_paths>>
    /\ UNCHANGED serviceVars

CallRecommendCourseSequence(goal_course, learning_style, risk_tolerance, cost_weights) ==
    /\ phase = "build"
    /\ result' = [op |-> "recommend_course_sequence",
                  goal_course |-> goal_course,
                  ret |-> RecommendCourseSequence(start_courses, goal_course,
                              learning_style, risk_tolerance, cost_weights)]
    /\ phase' = "done"
    /\ UNCHANGED <<routes, start, goal, heuristic, algorithm, start_courses>>
    /\ UNCHANGED arbiterVars
    /\ UNCHANGED serviceVars

NextHybridAdvisor ==
    \/ \E course \in CompletedNames : Complete(course)
    \/ ConstructHybridAdvisor
    \/ \E goal_course \in CourseNames : CallFindOptimalLearningPath(goal_course)
    \/ \E goal_course \in CourseNames, learning_style \in LearningStyle,
          risk_tolerance \in RiskTolerances, cost_weights \in CostWeights :
          CallRecommendCourseSequence(goal_course, learning_style,
                                      risk_tolerance, cost_weights)

SpecHybridAdvisor == InitAdvisor /\ [][NextHybridAdvisor]_vars

(***************************************************************************)
(* find_multiple_learning_paths and get_learning_path_with_alternatives.   *)
(***************************************************************************)
\* sum(self.course_attributes[course]['difficulty'] ...) over the list.
RECURSIVE TotalDifficulty(_)
TotalDifficulty(course_list) ==
    IF course_list = <<>> THEN 0
    ELSE (IF Head(course_list) \in DOMAIN course_attributes
          THEN course_attributes[Head(course_list)].difficulty ELSE 0)
         + TotalDifficulty(Tail(course_list))

\* The results list of find_multiple_learning_paths, built from what
\* find_all_paths returned, or its exception.
MultiplePathsOf(found, learning_style) ==
    IF found.status # "ok" THEN Failure(found.status)
    ELSE [status |-> "ok",
          results |-> [i \in 1..Len(found.paths) |->
              [path |-> Join(CleanPath(found.paths[i].path)),
               path_list |-> CleanPath(found.paths[i].path),
               total_cost |-> found.paths[i].cost,
               learning_style |-> learning_style]]]

\* find_multiple_learning_paths on temp_graph: the agent is constructed,
\* which validates the graph, then find_all_paths(max_cost = inf) runs.
MultiplePathsOnGraph(temp_graph, goal_course, learning_style) ==
    IF ~ValidateGraph(temp_graph, VirtualStart, goal_course)
    THEN Failure("ValueError")
    ELSE MultiplePathsOf(FindAllPaths(temp_graph, VirtualStart, goal_course, Infinity),
                         learning_style)

FindMultipleLearningPaths(completed, goal_course, learning_style, cost_weights) ==
    MultiplePathsOnGraph(TempGraph(completed, learning_style, cost_weights),
                         goal_course, learning_style)

\* An alternative with its total_time_hours and average_difficulty, the
\* latter in units of 1 / One.
WithMetrics(alternative) ==
    [path |-> alternative.path,
     path_list |-> alternative.path_list,
     total_cost |-> alternative.total_cost,
     learning_style |-> alternative.learning_style,
     total_time_hours |-> TotalTime(alternative.path_list),
     average_difficulty |->
        IF alternative.path_list # <<>>
        THEN (One * TotalDifficulty(alternative.path_list)) \div Len(alternative.path_list)
        ELSE 0]

\* The alternatives whose path_list differs from primary_path_list, each
\* with its metrics.
FilteredAlternatives(alternative_paths, primary_path_list) ==
    LET Other(alternative) == alternative.path_list # primary_path_list
        kept == SelectSeq(alternative_paths, Other)
    IN  [i \in 1..Len(kept) |-> WithMetrics(kept[i])]

\* The method get_learning_path_with_alternatives once its two calls have
\* returned, or one of them raised.
AlternativesReturn(completed, goal_course, learning_style, primary_result, alternative_paths) ==
    IF primary_result.status # "ok" THEN Failure(primary_result.status)
    ELSE IF alternative_paths.status # "ok" THEN Failure(alternative_paths.status)
    ELSE [status |-> "ok",
          primary_path |-> primary_result,
          alternative_paths |->
              FilteredAlternatives(alternative_paths.results,
                  IF primary_result.success THEN primary_result.path_list ELSE <<>>),
          start_courses |-> completed,
          goal_course |-> goal_course,
          learning_style |-> learning_style]

\* EnhancedLearningPathAdvisor.get_learning_path_with_alternatives(
\* start_courses, goal_course, learning_style): both calls use the default
\* algorithm and no cost_weights.
GetLearningPathWithAlternatives(completed, goal_course, learning_style) ==
    AlternativesReturn(completed, goal_course, learning_style,
        FindLearningPath(completed, goal_course, learning_style, DIJKSTRA, NoCostWeights),
        FindMultipleLearningPaths(completed, goal_course, learning_style, NoCostWeights))

\* The parameters the method declares besides self, and the keywords the
\* API function passes to it.
AlternativesParameters == {"start_courses", "goal_course", "learning_style"}
AlternativesKeywords == {"learning_style", "cost_weights"}

\* The API function get_learning_path_with_alternatives(start_courses,
\* goal_course, learning_style, cost_weights): LearningStyle(...) raises
\* ValueError for a token that names no style; a keyword the method does
\* not declare makes the call raise TypeError.
GetLearningPathWithAlternativesApi(completed, goal_course, style_token, cost_weights) ==
    IF Lower(style_token) \notin LearningStyle THEN Failure("ValueError")
    ELSE IF ~(AlternativesKeywords \subseteq AlternativesParameters)
    THEN Failure("TypeError")
    ELSE GetLearningPathWithAlternatives(completed, goal_course, Lower(style_token))

\* The API function is called; the advisor it creates is dropped at return.
CallAlternativesApi(goal_course, style_token, cost_weights) ==
    /\ phase = "build"
    /\ result' = [op |-> "get_learning_path_with_alternatives",
                  goal_course |-> goal_course,
                  learning_style |-> style_token,
                  cost_weights |-> cost_weights,
                  ret |-> GetLearningPathWithAlternativesApi(start_courses,
                              goal_course, style_token, cost_weights)]
    /\ phase' = "done"
    /\ UNCHANGED <<routes, start, goal, heuristic, algorithm, start_courses>>
    /\ UNCHANGED arbiterVars
    /\ UNCHANGED serviceVars

\* The method is called on an advisor directly.
CallAlternativesMethod(goal_course, learning_style) ==
    /\ phase = "build"
    /\ result' = [op |-> "advisor.get_learning_path_with_alternatives",
                  goal_course |-> goal_course,
                  learning_style |-> learning_style,
                  ret |-> GetLearningPathWithAlternatives(start_courses,
                              goal_course, learning_style)]
    /\ phase' = "done"
    /\ UNCHANGED <<routes, start, goal, heuristic, algorithm, start_courses>>
    /\ UNCHANGED arbiterVars
    /\ UNCHANGED serviceVars

NextAlternatives ==
    \/ \E course \in CompletedNames : Complete(course)
    \/ \E goal_course \in CourseNames, style_token \in StyleTokens,
          cost_weights \in CostWeights :
              CallAlternativesApi(goal_course, style_token, cost_weights)
    \/ \E goal_course \in CourseNames, learning_style \in LearningStyle :
              CallAlternativesMethod(goal_course, learning_style)

SpecAlternatives == InitAdvisor /\ [][NextAlternatives]_vars

(***************************************************************************)
(* server.py: POST /api/path.                                              *)
(***************************************************************************)
\* validate_input, from field i of required_fields on: the exception it
\* raises, or None.  The values of the model's requests are lists and
\* strings, for which an empty value is rejected.
RECURSIVE ValidateInput(_, _, _)
ValidateInput(data, required_fields, i) ==
    IF i > Len(required_fields) THEN None
    ELSE IF required_fields[i] \notin DOMAIN data THEN "ValidationError"
    ELSE IF Len(data[required_fields[i]]) = 0 THEN "ValidationError"
    ELSE ValidateInput(data, required_fields, i + 1)

\* validate_courses_exist: a name that is not empty and no key of
\* course_prerequisites raises CourseNotFoundError.
ValidateCoursesExist(courses) ==
    IF \E i \in 1..Len(courses) : Len(courses[i]) # 0 /\ courses[i] \notin Courses
    THEN "CourseNotFoundError"
    ELSE None

\* The response the error handlers of the application build.
HandleError(exc) ==
    CASE exc = "ValidationError" ->
             [status_code |-> 400, error_type |-> "ValidationError"]
      [] exc = "CourseNotFoundError" ->
             [status_code |-> 404, error_type |-> "CourseNotFoundError"]
      [] OTHER ->
             [status_code |-> 500, error_type |-> "InternalServerError"]

\* jsonify(result), or the handler of the exception get_learning_path
\* raised.
PathResponse(ret) ==
    IF ret.status # "ok" THEN HandleError(ret.status)
    ELSE [status_code |-> 200, json |-> ret]

\* learning_path(): what it answers to the JSON body `data`, and whether
\* get_learning_path was called.
LearningPathHandler(data) ==
    IF ValidateInput(data, <<"start_courses", "goal_course">>, 1) # None
    THEN [response |-> HandleError(ValidateInput(data, <<"start_courses", "goal_course">>, 1)),
          computed |-> FALSE]
    ELSE IF ValidateCoursesExist(Append(data.start_courses, data.goal_course)) # None
    THEN [response |-> HandleError(ValidateCoursesExist(
                           Append(data.start_courses, data.goal_course))),
          computed |-> FALSE]
    ELSE [response |-> PathResponse(
                           GetLearningPathResult(data.start_courses, data.goal_course,
                               Get(data, "learning_style", "balanced"),
                               Get(data, "algorithm", "dijkstra"),
                               Get(data, "cost_weights", NoCostWeights))),
          computed |-> TRUE]

\* The JSON bodies the clients post: each field absent or set.
Field(name, values) == {<< >>} \cup {[f \in {name} |-> v] : v \in values}

StartCoursesValues ==
    {<<>>, <<"Python Basics">>, <<"Data Structures">>, <<"Machine Learning">>,
     <<UnknownCourse>>, <<"Python Basics", UnknownCourse>>,
     <<"Python Basics", "Data Structures">>}

Requests ==
    {a @@ b @@ c @@ d @@ e :
        a \in Field("start_courses", StartCoursesValues),
        b \in Field("goal_course", CourseNames \cup {""}),
        c \in Field("learning_style", {"fastest", "Balanced", "relaxed"}),
        d \in Field("algorithm", {"dijkstra", "astar", "bfs", "greedy"}),
        e \in Field("cost_weights", {WeightMap(0, 0, 0, 0)})}

\* A client posts `data` to /api/path.
PostPath(data) ==
    /\ phase = "build"
    /\ result' = [op |-> "POST /api/path", data |-> data,
                  handled |-> LearningPathHandler(data)]
    /\ phase' = "done"
    /\ UNCHANGED <<routes, start, goal, heuristic, algorithm, start_courses>>
    /\ UNCHANGED arbiterVars
    /\ UNCHANGED serviceVars

NextServer == \E data \in Requests : PostPath(data)

SpecServer == InitAdvisor /\ [][NextServer]_vars

(***************************************************************************)
(* cache.py: InMemoryCache.  The OrderedDict is a sequence of entries,     *)
(* least recently used first.  Every method runs inside `with self.lock`:  *)
(* a thread that called a method waits until the lock is free, takes it,   *)
(* runs the body and releases it.  time.time() is the integer `now`.       *)
(***************************************************************************)
\* CacheConfig.DEFAULT_TTL
DEFAULT_TTL == 3600

\* threading.Lock() that nobody holds.
NoThread == 0
Threads == 1..MaxThreads

\* A thread that is in no call.
Idle == [pc |-> "idle", calls |-> 0]

CacheKeys == {"k1", "k2", "k3"}
\* The ttl arguments: 0 stands for the falsy ones (None, 0).
Ttls == {0, 1}
\* The cached value.
Value == "value"

\* CacheEntry(value, ttl) at time t, for `key`.
CacheEntry(key, value, ttl, t) ==
    [key |-> key, value |-> value,
     ttl |-> IF ttl = 0 THEN DEFAULT_TTL ELSE ttl,
     created_at |-> t, accessed_at |-> t, access_count |-> 0]

\* CacheEntry.is_expired at time t.
IsExpired(entry, t) == (t - entry.created_at) > entry.ttl

\* CacheEntry.access at time t: the entry afterwards.
Access(entry, t) ==
    [entry EXCEPT !.accessed_at = t, !.access_count = @ + 1]

\* The keys of the OrderedDict.
CachedKeys(c) == {c[i].key : i \in 1..Len(c)}

\* The position of `key`, which is in the OrderedDict.
IndexOf(c, key) == CHOOSE i \in 1..Len(c) : c[i].key = key

\* del self.cache[key]
Del(c, key) == LET Other(entry) == entry.key # key IN SelectSeq(c, Other)

\* Mutant: move_to_end leaves the entry where it is.
LeaveInPlace(c, key) == c

\* self.cache.move_to_end(key)
MoveToEnd(c, key) == Append(Del(c, key), c[IndexOf(c, key)])

\* stats with one counter incremented.
Count(st, counter) == [st EXCEPT ![counter] = @ + 1]

\* The body of get(key) at time t: the cache and stats afterwards, the value
\* returned, and whether the key was used.
CacheGet(c, st, key, t) ==
    IF key \notin CachedKeys(c)
    THEN [cache |-> c, stats |-> Count(st, "misses"), ret |-> None, used |-> FALSE]
    ELSE IF IsExpired(c[IndexOf(c, key)], t)
    THEN [cache |-> Del(c, key), stats |-> Count(st, "expirations"),
          ret |-> None, used |-> FALSE]
    ELSE [cache |-> [MoveToEnd(c, key) EXCEPT ![Len(c)] = Access(@, t)],
          stats |-> Count(st, "hits"),
          ret |-> c[IndexOf(c, key)].value, used |-> TRUE]

\* set(key, value, ttl) once an existing entry of the key is removed:
\* popitem(last=False) raises KeyError on an empty OrderedDict.
SetAfterDel(c, st, size, key, value, ttl, t) ==
    IF Len(c) >= size
    THEN IF c = <<>>
         THEN [cache |-> c, stats |-> st, ret |-> "KeyError", used |-> FALSE]
         ELSE [cache |-> Append(Tail(c), CacheEntry(key, value, ttl, t)),
               stats |-> Count(st, "evictions"), ret |-> None, used |-> TRUE]
    ELSE [cache |-> Append(c, CacheEntry(key, value, ttl, t)),
          stats |-> st, ret |-> None, used |-> TRUE]

\* The body of set(key, value, ttl) at time t.
CacheSet(c, st, size, key, value, ttl, t) ==
    SetAfterDel(Del(c, key), st, size, key, value, ttl, t)

\* The body of delete(key).
CacheDelete(c, st, key) ==
    [cache |-> Del(c, key), stats |-> st, ret |-> key \in CachedKeys(c),
     used |-> FALSE]

\* The body of clear().
CacheClear(st) == [cache |-> <<>>, stats |-> st, ret |-> None, used |-> FALSE]

\* The body of the method a thread called.
CacheBody(call, c, st, size, t) ==
    CASE call.op = "get" -> CacheGet(c, st, call.key, t)
      [] call.op = "set" -> CacheSet(c, st, size, call.key, Value, call.ttl, t)
      [] call.op = "delete" -> CacheDelete(c, st, call.key)
      [] call.op = "clear" -> CacheClear(st)

\* InMemoryCache(max_size), and threads that share it.
InitCache ==
    /\ routes = <<>>
    /\ start = None
    /\ goal = None
    /\ heuristic = NoHeuristic
    /\ algorithm = None
    /\ phase = "build"
    /\ result = NoResult
    /\ start_courses = <<>>
    /\ NoArbiter
    /\ cache = <<>>
    /\ lock = NoThread
    /\ stats = [hits |-> 0, misses |-> 0, evictions |-> 0, expirations |-> 0]
    /\ max_size \in 0..MaxSize
    /\ now = 0
    /\ uses = <<>>
    /\ metrics = <<>>
    /\ lists = <<>>
    /\ max_history = 0
    /\ threads = [t \in Threads |-> Idle]

\* Thread t calls a method of the cache and reaches `with self.lock`.
CacheCall(t, op, key, ttl) ==
    /\ threads[t].pc = "idle"
    /\ threads[t].calls < MaxCalls
    /\ threads' = [threads EXCEPT ![t] =
                      [pc |-> "acquire", calls |-> @.calls + 1,
                       op |-> op, key |-> key, ttl |-> ttl]]
    /\ UNCHANGED <<cacheVars, monitorVars, plannerVars>>

\* Lock.__enter__: thread t takes the lock once it is free.
Acquire(t) ==
    /\ threads[t].pc = "acquire"
    /\ lock = NoThread
    /\ lock' = t
    /\ threads' = [threads EXCEPT ![t].pc = "locked"]
    /\ UNCHANGED <<cache, stats, max_size, now, uses, monitorVars, plannerVars>>

\* The body of the method and Lock.__exit__, given what the body does.
Finish(t, done) ==
    /\ cache' = done.cache
    /\ stats' = done.stats
    /\ uses' = IF done.used THEN Append(uses, threads[t].key) ELSE uses
    /\ lock' = NoThread
    /\ threads' = [threads EXCEPT ![t] =
                      [pc |-> "idle", calls |-> @.calls, op |-> @.op,
                       key |-> @.key, ret |-> done.ret]]
    /\ UNCHANGED <<max_size, now, monitorVars, plannerVars>>

\* Thread t, holding the lock, runs the body of its method and leaves the
\* `with` block.
RunLocked(t) ==
    /\ threads[t].pc = "locked"
    /\ lock = t
    /\ Finish(t, CacheBody(threads[t], cache, stats, max_size, now))

\* Time passes.
Tick ==
    /\ now < MaxTime
    /\ now' = now + 1
    /\ UNCHANGED <<cache, lock, stats, max_size, uses, threads, monitorVars,
                   plannerVars>>

NextCache ==
    \/ \E t \in Threads, key \in CacheKeys : CacheCall(t, "get", key, 0)
    \/ \E t \in Threads, key \in CacheKeys, ttl \in Ttls : CacheCall(t, "set", key, ttl)
    \/ \E t \in Threads, key \in CacheKeys : CacheCall(t, "delete", key, 0)
    \/ \E t \in Threads : CacheCall(t, "clear", None, 0)
    \/ \E t \in Threads : Acquire(t)
    \/ \E t \in Threads : RunLocked(t)
    \/ Tick

SpecCache == InitCache /\ [][NextCache]_vars

(***************************************************************************)
(* performance_monitor.py: PerformanceMonitor.  No method takes a lock, so *)
(* threads interleave between the steps of record_metric: the lookup of    *)
(* self.metrics[name], the append, the lookup and the len of the test, and *)
(* the lookup, the slice and the store of the trim.  A list is an object:  *)
(* `lists` holds the lists ever created and metrics[name] is an index in   *)
(* it, so that a thread can hold a list that is no longer in the dict.     *)
(***************************************************************************)
MetricNames == {"m"}

\* PerformanceMetric(name, value) created at time t; the value tells which
\* call of which thread recorded it.
PerformanceMetric(name, value, t) ==
    [name |-> name, value |-> value, unit |-> "ms", timestamp |-> t]

\* seq[-n:] for n >= 0: seq[-0:] is the whole list.
LastItems(seq, n) ==
    IF n = 0 \/ n >= Len(seq) THEN seq
    ELSE SubSeq(seq, Len(seq) - n + 1, Len(seq))

\* PerformanceMonitor(max_history), and threads that share it.
InitMonitor ==
    /\ routes = <<>>
    /\ start = None
    /\ goal = None
    /\ heuristic = NoHeuristic
    /\ algorithm = None
    /\ phase = "build"
    /\ result = NoResult
    /\ start_courses = <<>>
    /\ NoArbiter
    /\ cache = <<>>
    /\ lock = NoThread
    /\ stats = <<>>
    /\ max_size = 0
    /\ now = 0
    /\ uses = <<>>
    /\ metrics = <<>>
    /\ lists = <<>>
    /\ max_history \in 0..MaxHistory
    /\ threads = [t \in Threads |-> Idle]

\* Thread t calls record_metric(name, value) and creates the metric.
RecordMetric(t, name) ==
    /\ threads[t].pc = "idle"
    /\ threads[t].calls < MaxCalls
    /\ threads' = [threads EXCEPT ![t] =
                      [pc |-> "lookup", calls |-> @.calls + 1,
                       op |-> "record_metric", name |-> name,
                       metric |-> PerformanceMetric(name, <<t, @.calls + 1>>, now)]]
    /\ UNCHANGED <<cacheVars, monitorVars, plannerVars>>

\* self.metrics[name] of line 49: the defaultdict creates the list of a new
\* name.
Lookup(t) ==
    /\ threads[t].pc = "lookup"
    /\ IF threads[t].name \in DOMAIN metrics
       THEN UNCHANGED <<metrics, lists>>
       ELSE /\ lists' = Append(lists, <<>>)
            /\ metrics' = metrics @@ [n \in {threads[t].name} |-> Len(lists) + 1]
    /\ threads' = [threads EXCEPT ![t] =
                      [pc |-> "append", calls |-> @.calls, op |-> @.op, name |-> @.name,
                       metric |-> @.metric, list |-> metrics'[@.name]]]
    /\ UNCHANGED <<cacheVars, max_history, plannerVars>>

\* .append(metric) on the list that was looked up.
AppendMetric(t) ==
    /\ threads[t].pc = "append"
    /\ lists' = [lists EXCEPT ![threads[t].list] = Append(@, threads[t].metric)]
    /\ threads' = [threads EXCEPT ![t].pc = "test"]
    /\ UNCHANGED <<cacheVars, metrics, max_history, plannerVars>>

\* self.metrics[name] of line 52.
TestLookup(t) ==
    /\ threads[t].pc = "test"
    /\ threads' = [threads EXCEPT ![t].pc = "len", ![t].list = metrics[threads[t].name]]
    /\ UNCHANGED <<cacheVars, monitorVars, plannerVars>>

\* len(...) > self.max_history: the call returns unless the list is too long.
TestLen(t) ==
    /\ threads[t].pc = "len"
    /\ threads' = [threads EXCEPT ![t] =
                      IF Len(lists[@.list]) > max_history
                      THEN [@ EXCEPT !.pc = "trim"]
                      ELSE [pc |-> "idle", calls |-> @.calls, op |-> @.op,
                            name |-> @.name]]
    /\ UNCHANGED <<cacheVars, monitorVars, plannerVars>>

\* self.metrics[name] on the right of line 53.
TrimLookup(t) ==
    /\ threads[t].pc = "trim"
    /\ threads' = [threads EXCEPT ![t].pc = "slice", ![t].list = metrics[threads[t].name]]
    /\ UNCHANGED <<cacheVars, monitorVars, plannerVars>>

\* [-self.max_history:] makes a new list.
TrimSlice(t) ==
    /\ threads[t].pc = "slice"
    /\ lists' = Append(lists, LastItems(lists[threads[t].list], max_history))
    /\ threads' = [threads EXCEPT ![t].pc = "store", ![t].list = Len(lists) + 1]
    /\ UNCHANGED <<cacheVars, metrics, max_history, plannerVars>>

\* self.metrics[name] = ... stores the new list, and the call returns.
TrimStore(t) ==
    /\ threads[t].pc = "store"
    /\ metrics' = [metrics EXCEPT ![threads[t].name] = threads[t].list]
    /\ threads' = [threads EXCEPT ![t] =
                      [pc |-> "idle", calls |-> @.calls, op |-> @.op,
                       name |-> @.name]]
    /\ UNCHANGED <<cacheVars, lists, max_history, plannerVars>>

\* What get_metric_stats(name) returns: None, here the record without
\* statistics, for a name without metrics, and otherwise the count and the
\* values the statistics are computed from.
MetricStats(name) ==
    IF name \notin DOMAIN metrics THEN [metric |-> None]
    ELSE IF lists[metrics[name]] = <<>> THEN [metric |-> None]
    ELSE [metric |-> name, count |-> Len(lists[metrics[name]]),
          values |-> [i \in 1..Len(lists[metrics[name]]) |->
                          lists[metrics[name]][i].value]]

\* Thread t calls get_metric_stats(name).
GetMetricStats(t, name) ==
    /\ threads[t].pc = "idle"
    /\ threads[t].calls < MaxCalls
    /\ threads' = [threads EXCEPT ![t] =
                      [pc |-> "idle", calls |-> @.calls + 1,
                       op |-> "get_metric_stats", name |-> name,
                       ret |-> MetricStats(name)]]
    /\ UNCHANGED <<cacheVars, monitorVars, plannerVars>>

NextMonitor ==
    \/ \E t \in Threads, name \in MetricNames : RecordMetric(t, name)
    \/ \E t \in Threads : Lookup(t)
    \/ \E t \in Threads : AppendMetric(t)
    \/ \E t \in Threads : TestLookup(t)
    \/ \E t \in Threads : TestLen(t)
    \/ \E t \in Threads : TrimLookup(t)
    \/ \E t \in Threads : TrimSlice(t)
    \/ \E t \in Threads : TrimStore(t)
    \/ \E t \in Threads, name \in MetricNames : GetMetricStats(t, name)

SpecMonitor == InitMonitor /\ [][NextMonitor]_vars

(***************************************************************************)
(* Properties of the search agent.                                         *)
(***************************************************************************)
SearchOps == {"dijkstra_pathfinding", "astar_pathfinding", "bfs_pathfinding"}

\* C1: when dijkstra_pathfinding returns a path P with cost C, C is the sum
\* of the weights of edges along P and no path from start to goal has a
\* strictly lower total weight.
C1_DijkstraOptimal ==
    (result.op = "dijkstra_pathfinding" /\ result.ret.status = "ok") =>
        /\ IsPathOf(routes, result.ret.path)
        /\ result.ret.cost \in PathCosts(routes, result.ret.path)
        /\ \A p \in SimplePaths(routes, start, goal) :
               \A c \in PathCosts(routes, p) : c >= result.ret.cost

\* Dijkstra returned a path of at least two edges that is strictly cheaper
\* than a path it passed over, one with fewer edges.
C1_Witness ==
    /\ result.op = "dijkstra_pathfinding"
    /\ result.ret.status = "ok"
    /\ Len(result.ret.path) >= 3
    /\ \E p \in SimplePaths(routes, start, goal) :
           /\ Len(p) < Len(result.ret.path)
           /\ \A c \in PathCosts(routes, p) : c > result.ret.cost

\* C2: every path a search returns begins with start, ends with goal, and
\* each consecutive pair of its nodes is joined by an edge of the graph.
C2_PathWellFormed ==
    (result.op \in SearchOps /\ result.ret.status = "ok") =>
        /\ result.ret.path # <<>>
        /\ result.ret.path[1] = start
        /\ result.ret.path[Len(result.ret.path)] = goal
        /\ IsPathOf(routes, result.ret.path)

\* A* returned a path of at least two edges.
C2_Witness ==
    /\ result.op = "astar_pathfinding"
    /\ result.ret.status = "ok"
    /\ Len(result.ret.path) >= 3

\* C3: when the goal is a key of the graph and is not reachable from start,
\* Dijkstra, A* with a heuristic and BFS return (None, inf) without raising,
\* and get_path_details reports success = false, an empty best_path and
\* best_cost = inf.
C3_UnreachableSentinel ==
    (/\ phase = "done"
     /\ ~Reachable(routes, start, goal)) =>
        /\ (result.op \in {"dijkstra_pathfinding", "bfs_pathfinding"}
             \/ (result.op = "astar_pathfinding" /\ heuristic # NoHeuristic)) =>
               /\ result.ret.status = "nopath"
               /\ result.ret.path = <<>>
               /\ result.ret.cost = Infinity
        /\ (result.op = "get_path_details"
             /\ (algorithm = ASTAR => heuristic # NoHeuristic)) =>
               /\ result.ret.status = "ok"
               /\ result.ret.success = FALSE
               /\ result.ret.best_path = <<>>
               /\ result.ret.best_cost = Infinity

\* get_path_details ran under A* with a heuristic on a graph whose edges
\* leave the start and enter the goal, yet do not connect them.
C3_Witness ==
    /\ result.op = "get_path_details"
    /\ algorithm = ASTAR
    /\ heuristic # NoHeuristic
    /\ ~Reachable(routes, start, goal)
    /\ routes[start] # <<>>
    /\ \E n \in DOMAIN routes : HasEdge(routes, n, goal)
    /\ result.ret.success = FALSE

\* C4: with an admissible and consistent heuristic, astar_pathfinding
\* returns the cost dijkstra_pathfinding returns for the same start and goal.
C4_AStarMatchesDijkstra ==
    (/\ result.op = "astar_pathfinding"
     /\ Admissible(routes, goal, heuristic)
     /\ Consistent(routes, goal, heuristic)) =>
        /\ result.ret.status = DijkstraPathfinding(routes, start, goal).status
        /\ result.ret.cost = DijkstraPathfinding(routes, start, goal).cost
        /\ result.ret.cost = Distance(routes, start, goal)

\* A* found a path of positive cost under a consistent heuristic that is
\* not zero on a node of that path, while a costlier path exists.
C4_Witness ==
    /\ result.op = "astar_pathfinding"
    /\ result.ret.status = "ok"
    /\ Admissible(routes, goal, heuristic)
    /\ Consistent(routes, goal, heuristic)
    /\ result.ret.cost > 0
    /\ \E i \in 2..Len(result.ret.path) : heuristic[result.ret.path[i]] > 0
    /\ \E p \in SimplePaths(routes, start, goal) :
           \A c \in PathCosts(routes, p) : c > result.ret.cost

\* C5: bfs_pathfinding returns the number of edges of its path as the cost,
\* whatever the weights, and no path from start to goal has fewer edges.
C5_BfsFewestEdges ==
    (result.op = "bfs_pathfinding" /\ result.ret.status = "ok") =>
        /\ result.ret.cost = One * (Len(result.ret.path) - 1)
        /\ IsPathOf(routes, result.ret.path)
        /\ \A p \in SimplePaths(routes, start, goal) :
               Len(p) >= Len(result.ret.path)

\* BFS returned a path whose weight differs from its edge count and that is
\* not the cheapest path, next to a longer path.
C5_Witness ==
    /\ result.op = "bfs_pathfinding"
    /\ result.ret.status = "ok"
    /\ result.ret.cost \notin PathCosts(routes, result.ret.path)
    /\ Distance(routes, start, goal) < SetMin(PathCosts(routes, result.ret.path))
    /\ \E p \in SimplePaths(routes, start, goal) : Len(p) > Len(result.ret.path)

\* C7: plan() on an agent that selects A* and has no heuristic raises
\* ValueError: it returns neither a path nor a cost.
C7_AStarNeedsHeuristic ==
    (result.op = "plan" /\ algorithm = ASTAR /\ heuristic = NoHeuristic) =>
        /\ result.ret.status = "ValueError"
        /\ result.ret.path_str = None

\* plan() raised for A* without a heuristic on a graph where Dijkstra and
\* BFS would both have found a path.
C7_Witness ==
    /\ result.op = "plan"
    /\ algorithm = ASTAR
    /\ heuristic = NoHeuristic
    /\ result.ret.status = "ValueError"
    /\ Reachable(routes, start, goal)

\* C9: a construction whose start or goal is not a key of the graph raises
\* ValueError and leaves no agent, so no search runs for it; and the
\* temporary agents of find_all_paths never fail that validation.
C9_ValidatedAtConstruction ==
    /\ (result.op = "__init__" /\ result.status = "ok") =>
           (phase = "ready" /\ start \in DOMAIN routes /\ goal \in DOMAIN routes)
    /\ (result.op = "__init__" /\ result.status # "ok") =>
           /\ result.status = "ValueError"
           /\ phase = "invalid"
           /\ (result.start \notin DOMAIN routes \/ result.goal \notin DOMAIN routes)
    /\ phase \in {"ready", "done"} =>
           (start \in DOMAIN routes /\ goal \in DOMAIN routes)
    /\ phase \in {"build", "invalid"} => result.op \in {"none", "__init__"}
    /\ result.op = "find_all_paths" => result.ret.status # "ValueError"

\* A construction with a goal that is not a key was refused, on a graph
\* that has edges.
C9_Witness ==
    /\ phase = "invalid"
    /\ result.op = "__init__"
    /\ result.status = "ValueError"
    /\ result.start \in DOMAIN routes
    /\ result.goal \notin DOMAIN routes
    /\ EdgeCount(routes) >= 2

\* C10 as stated: whenever a path from start to goal exists, find_all_paths
\* returns a non-empty list whose first element is the path and cost of
\* dijkstra_pathfinding.
C10_Original ==
    (result.op = "find_all_paths" /\ Reachable(routes, start, goal)) =>
        /\ result.ret.status = "ok"
        /\ result.ret.paths # <<>>
        /\ result.ret.paths[1].path = DijkstraPathfinding(routes, start, goal).path
        /\ result.ret.paths[1].cost = DijkstraPathfinding(routes, start, goal).cost

\* C10 as amended: whenever a path from start to goal exists and the
\* shortest cost does not exceed max_cost, find_all_paths returns a non-empty
\* list whose first element is the path and cost of dijkstra_pathfinding;
\* when the shortest cost exceeds max_cost the list is empty.
C10_ShortestFirst ==
    (result.op = "find_all_paths" /\ Reachable(routes, start, goal)) =>
        /\ result.ret.status = "ok"
        /\ Distance(routes, start, goal) <= result.max_cost =>
               /\ result.ret.paths # <<>>
               /\ result.ret.paths[1].path = DijkstraPathfinding(routes, start, goal).path
               /\ result.ret.paths[1].cost = DijkstraPathfinding(routes, start, goal).cost
               /\ result.ret.paths[1].cost = Distance(routes, start, goal)
        /\ Distance(routes, start, goal) > result.max_cost => result.ret.paths = <<>>

\* find_all_paths returned the shortest path first, followed by an
\* alternative of the same cost.
C10_Witness ==
    /\ result.op = "find_all_paths"
    /\ result.ret.status = "ok"
    /\ Len(result.ret.paths) >= 2
    /\ result.ret.paths[1].path = DijkstraPathfinding(routes, start, goal).path
    /\ result.ret.paths[2].cost = result.ret.paths[1].cost

(***************************************************************************)
(* Properties of get_learning_path.                                        *)
(***************************************************************************)
\* The request named no unknown course and a learning style that exists.
CatalogRequest ==
    /\ result.op = "get_learning_path"
    /\ Lower(result.learning_style) \in LearningStyle
    /\ result.goal_course \in Courses
    /\ \A i \in 1..Len(start_courses) : start_courses[i] \in Courses

\* C6: for each of the algorithm tokens dijkstra, astar and bfs,
\* get_learning_path called with completed courses and a goal course that are
\* all in the catalog returns a structured result carrying a success flag,
\* the path as a list of course names and the total cost; it does not fail.
C6_StructuredResult ==
    (CatalogRequest /\ result.algorithm \in PathfindingAlgorithm) =>
        /\ result.ret.status = "ok"
        /\ result.ret.success \in BOOLEAN
        /\ \A i \in 1..Len(result.ret.path_list) : result.ret.path_list[i] \in Courses
        /\ result.ret.total_cost \in 0..Infinity

\* C8 as stated: a request whose algorithm token is not one of dijkstra,
\* astar, bfs fails with an error; no path is computed or returned for it.
C8_Original ==
    (CatalogRequest /\ Lower(result.algorithm) \notin PathfindingAlgorithm) =>
        result.ret.status # "ok"

\* C8 as amended: a request whose algorithm token, lower-cased, is not one of
\* dijkstra, astar, bfs does not fail for that: it is planned with Dijkstra.
\* It returns what the same request with the token dijkstra returns, reports
\* algorithm_used = dijkstra, and a path it returns has the least total
\* weight of the paths from the completed courses to the goal.
C8_UnknownAlgorithmIsDijkstra ==
    (result.op = "get_learning_path"
        /\ Lower(result.algorithm) \notin PathfindingAlgorithm) =>
        /\ result.ret = GetLearningPathResult(start_courses, result.goal_course,
                            result.learning_style, "dijkstra", result.cost_weights)
        /\ CatalogRequest =>
               /\ result.ret.status = "ok"
               /\ result.ret.algorithm_used = DIJKSTRA
               /\ algorithm = DIJKSTRA
               /\ result.ret.total_cost = Distance(routes, VirtualStart, result.goal_course)
               /\ result.ret.success = Reachable(routes, VirtualStart, result.goal_course)

\* A request with the token greedy returned a path of at least three courses
\* that costs less than another path to the goal.
C8_Witness ==
    /\ CatalogRequest
    /\ result.algorithm = "greedy"
    /\ result.ret.status = "ok"
    /\ result.ret.success
    /\ Len(result.ret.path_list) >= 3
    /\ \E p \in SimplePaths(routes, VirtualStart, result.goal_course) :
           \A c \in PathCosts(routes, p) : c > result.ret.total_cost

(***************************************************************************)
(* Properties of find_all_paths.                                           *)
(***************************************************************************)
\* `paths` is sorted by ascending cost, holds no node sequence twice, and
\* holds only paths of the graph from start to goal that cost at most limit.
WellFormedAlternatives(paths, limit) ==
    /\ \A i \in 1..(Len(paths) - 1) : paths[i].cost <= paths[i + 1].cost
    /\ \A i, j \in 1..Len(paths) : paths[i].path = paths[j].path => i = j
    /\ \A i \in 1..Len(paths) :
           /\ paths[i].cost <= limit
           /\ paths[i].cost \in PathCosts(routes, paths[i].path)

\* C11: the list returned by find_all_paths is sorted by ascending cost,
\* contains no two entries with the same node sequence, and contains only
\* paths whose cost is at most max_cost; so is the list get_path_details
\* reports, whose max_cost is twice the best cost.
C11_SortedUniqueBounded ==
    /\ (result.op = "find_all_paths" /\ result.ret.status = "ok") =>
           WellFormedAlternatives(result.ret.paths, result.max_cost)
    /\ (result.op = "get_path_details" /\ result.ret.status = "ok") =>
           WellFormedAlternatives(result.ret.all_alternative_paths,
                                  2 * result.ret.best_cost)

\* find_all_paths under a finite max_cost returned two paths of different
\* cost, the dearer one costing exactly max_cost.
C11_Witness ==
    /\ result.op = "find_all_paths"
    /\ result.max_cost < Infinity
    /\ result.ret.status = "ok"
    /\ Len(result.ret.paths) >= 2
    /\ result.ret.paths[1].cost < result.ret.paths[2].cost
    /\ result.ret.paths[2].cost = result.max_cost

(***************************************************************************)
(* Properties of the utility agent.                                        *)
(***************************************************************************)
ActionNamed(name) == CHOOSE i \in 1..Len(actions) : actions[i].name = name

\* Position i holds the first greatest of the values.
IsFirstGreatest(values, i) ==
    /\ \A j \in 1..Len(values) : values[j] <= values[i]
    /\ \A j \in 1..(i - 1) : values[j] < values[i]

\* C12: under MEU decide returns an action whose sum of probability x
\* utility is the largest among all actions, together with that sum; under
\* minimax an action whose minimum outcome utility is the largest, together
\* with that minimum; among tied actions it is always the one that comes
\* first in the action dict.
C12_DecideReturnsBest ==
    (result.op = "decide" /\ actions # <<>>) =>
        /\ result.ret.status = "ok"
        /\ \E i \in 1..Len(actions) :
              /\ result.ret.best_action = actions[i].name
              /\ decision_strategy = MEU =>
                    /\ result.ret.best_utility
                          = CalculateExpectedUtility(actions[i].outcomes)
                    /\ IsFirstGreatest(UtilityResults(actions), i)
              /\ decision_strategy = MINIMAX =>
                    /\ \E k \in 1..Len(actions[i].outcomes) :
                          result.ret.best_utility
                              = Certain * actions[i].outcomes[k].utility
                    /\ \A k \in 1..Len(actions[i].outcomes) :
                          result.ret.best_utility
                              <= Certain * actions[i].outcomes[k].utility
                    /\ IsFirstGreatest(WorstOutcomes(actions), i)

\* decide under MEU chose between two different actions of equal expected
\* utility, one of them with a better worst case.
C12_Witness ==
    /\ result.op = "decide"
    /\ decision_strategy = MEU
    /\ Len(actions) = 2
    /\ actions[1].outcomes # actions[2].outcomes
    /\ CalculateExpectedUtility(actions[1].outcomes)
          = CalculateExpectedUtility(actions[2].outcomes)
    /\ WorstOutcome(actions[1].outcomes) < WorstOutcome(actions[2].outcomes)
    /\ result.ret.best_action = actions[1].name

\* The agent was constructed with exactly the Conservative and the
\* Aggressive action of the demo, in either order, and decide was called.
TwoInvestments ==
    /\ result.op = "decide"
    /\ actions \in {<<ConservativeInvestment, AggressiveInvestment>>,
                    <<AggressiveInvestment, ConservativeInvestment>>}

\* What decide returns for the two investments, given the value the
\* Aggressive action has under MEU.
InvestmentDecision(aggressive_value) ==
    TwoInvestments =>
        /\ result.ret.status = "ok"
        /\ result.ret.best_action = "Conservative Investment"
        /\ decision_strategy = MEU =>
              /\ result.ret.best_utility = 46 * Certain
              /\ result.ret.all_utilities[ActionNamed("Aggressive Investment")]
                    = aggressive_value * Certain
        /\ decision_strategy = MINIMAX =>
              /\ result.ret.best_utility = 30 * Certain
              /\ WorstOutcome(AggressiveInvestment.outcomes) = -100 * Certain

\* C13 as stated: under MEU decide returns Conservative with value 46 while
\* Aggressive's value is 30; under minimax Conservative with worst case 30
\* against -100.
C13_Original == InvestmentDecision(30)

\* C13: for Conservative = [(0.8, 50), (0.2, 30)] and Aggressive =
\* [(0.4, 150), (0.4, 10), (0.2, -100)], under MEU decide returns
\* Conservative with value 46 while Aggressive's value is 44; under minimax
\* decide returns Conservative with worst case 30, against -100.
C13_DemoDecision == InvestmentDecision(44)

\* decide under MEU was called on the two investments, Aggressive first.
C13_Witness ==
    /\ TwoInvestments
    /\ decision_strategy = MEU
    /\ actions[1] = AggressiveInvestment
    /\ result.ret.best_action = actions[2].name

RatioBelow(variance, eu, num, den, signed) ==
    IF eu > 0 THEN den * den * variance < num * num * Certain * eu * eu
    ELSE IF eu < 0 THEN signed
    ELSE FALSE

LevelByRatio(variance, eu, signed) ==
    IF variance = 0 THEN "Risk-free"
    ELSE IF RatioBelow(variance, eu, 1, 2, signed) THEN "Low Risk"
    ELSE IF RatioBelow(variance, eu, 1, 1, signed) THEN "Medium Risk"
    ELSE "High Risk"

LevelsByRatio(signed) ==
    result.op = "analyze_risk_profile" =>
        /\ Len(result.ret) = Len(actions)
        /\ \A i \in 1..Len(actions) :
              LET eu == CalculateExpectedUtility(actions[i].outcomes)
                  unit == Unit(actions[i].outcomes, eu)
              IN  /\ result.ret[i].name = actions[i].name
                  /\ result.ret[i].risk_level
                        = LevelByRatio(Variance(actions[i].outcomes, eu, unit),
                                       eu \div unit, signed)

\* C15 as stated: Risk-free when the standard deviation is 0; otherwise Low
\* Risk when the ratio of standard deviation to expected utility is below
\* 0.5, Medium Risk when it is at least 0.5 and below 1.0, High Risk when it
\* is 1.0 or more.
C15_Original == LevelsByRatio(TRUE)

\* C15: analyze_risk_profile assigns every action exactly one of four risk
\* levels: Risk-free when the standard deviation is 0; otherwise High Risk
\* when the expected utility is zero or negative; otherwise Low Risk when
\* the ratio of standard deviation to expected utility is below 0.5, Medium
\* Risk when it is at least 0.5 and below 1.0, High Risk when it is 1.0 or
\* more.
C15_RiskLevels == LevelsByRatio(FALSE)

\* The analysis covered an action of negative expected utility with a spread
\* and an action whose ratio is exactly 0.5.
C15_Witness ==
    /\ result.op = "analyze_risk_profile"
    /\ Len(actions) = 2
    /\ CalculateExpectedUtility(actions[1].outcomes) < 0
    /\ result.ret[1].risk_level = "High Risk"
    /\ actions[2].outcomes = <<Outcome(50, 30), Outcome(50, 10)>>
    /\ result.ret[2].risk_level = "Medium Risk"

(***************************************************************************)
(* Properties of the hybrid agent.                                         *)
(***************************************************************************)
\* The sum of the penalties of the nodes of `nodes`, each counted as often
\* as it occurs on the path.
RECURSIVE PenaltySum(_, _, _)
PenaltySum(path, penalties, nodes) ==
    IF nodes = {} THEN 0
    ELSE LET n == CHOOSE x \in nodes : TRUE
         IN  penalties[n] * Cardinality({i \in 1..Len(path) : path[i] = n})
             + PenaltySum(path, penalties, nodes \ {n})

\* The adjustment terms of the caller for a path: the length factor times
\* the number of nodes, plus the penalties of its nodes.
Adjustment(path, factors) ==
    (IF "path_length_factor" \in DOMAIN factors
     THEN Len(path) * factors.path_length_factor ELSE 0)
    + (IF "node_penalties" \in DOMAIN factors
       THEN PenaltySum(path, factors.node_penalties, DOMAIN factors.node_penalties)
       ELSE 0)

\* q = min(0.1 + 0.02 * (max(k, 1) - 1), 0.4), in hundredths.
Q(k) ==
    LET raw == 10 + 2 * ((IF k > 1 THEN k ELSE 1) - 1)
    IN  IF raw < 40 THEN raw ELSE 40

\* C16: for each candidate path with k edges and cost c the hybrid planner
\* builds exactly two outcomes whose probabilities sum to 1: a normal one
\* with probability 1 - q and utility -c plus the caller's adjustment terms,
\* and a complication with probability q and utility -1.5 * c, unadjusted,
\* where q = min(0.1 + 0.02 * (max(k, 1) - 1), 0.4) is non-decreasing in k
\* and never exceeds 0.4.
C16_TwoOutcomes ==
    result.op = "evaluate_paths_with_utility" =>
        /\ result.ret.status = "ok"
        /\ Len(result.ret.all_paths_evaluation) = Len(result.paths)
        /\ \A i \in 1..Len(result.paths) :
              LET outcomes == result.ret.all_paths_evaluation[i].outcomes
                  k == Len(result.paths[i].path) - 1
                  c == result.paths[i].cost
              IN  /\ Len(outcomes) = 2
                  /\ outcomes[1].probability + outcomes[2].probability = Certain
                  /\ outcomes[1].probability = Certain - Q(k)
                  /\ outcomes[1].utility * One
                        = -(c * UtilityOne)
                          + One * Adjustment(result.paths[i].path,
                                             path_evaluation_factors)
                  /\ outcomes[2].probability = Q(k)
                  /\ 2 * outcomes[2].utility * One = -(3 * c * UtilityOne)
                  /\ 10 * outcomes[2].probability <= 4 * Certain
                  /\ \A j \in 1..Len(result.paths) :
                        Len(result.paths[j].path) - 1 <= k =>
                            result.ret.all_paths_evaluation[j].outcomes[2].probability
                                <= outcomes[2].probability

\* Two paths were evaluated with a length factor and node penalties: one
\* long enough for the cap on q to apply, one short.
C16_Witness ==
    /\ result.op = "evaluate_paths_with_utility"
    /\ DOMAIN path_evaluation_factors = {"path_length_factor", "node_penalties"}
    /\ Len(result.paths) = 2
    /\ Len(result.paths[1].path) - 1 = 17
    /\ Len(result.paths[2].path) - 1 = 3
    /\ result.ret.all_paths_evaluation[1].outcomes[2].probability = 40
    /\ result.ret.all_paths_evaluation[2].outcomes[2].probability = 14

\* The sum of probability x utility over the outcomes of an evaluated path.
ExpectedOf(entry) ==
    entry.outcomes[1].probability * entry.outcomes[1].utility
    + entry.outcomes[2].probability * entry.outcomes[2].utility

\* make_decision evaluated the first three of all_paths and returned the
\* candidate of greatest expected utility.
BestOfFirstThree(all_paths, decision) ==
    /\ decision.num_paths_considered = Len(decision.all_evaluated_paths)
    /\ Len(decision.all_evaluated_paths) <= 3
    /\ Len(decision.all_evaluated_paths)
          = (IF Len(all_paths) < 3 THEN Len(all_paths) ELSE 3)
    /\ \A i \in 1..Len(decision.all_evaluated_paths) :
          decision.all_evaluated_paths[i].name
              = <<"Path_", ToString(i), "_(">> \o Join(all_paths[i].path) \o <<")">>
    /\ \E i \in 1..Len(decision.all_evaluated_paths) :
          /\ decision.path_as_list = all_paths[i].path
          /\ decision.best_utility = ExpectedOf(decision.all_evaluated_paths[i])
          /\ \A j \in 1..Len(decision.all_evaluated_paths) :
                ExpectedOf(decision.all_evaluated_paths[j])
                    <= ExpectedOf(decision.all_evaluated_paths[i])

\* C17: make_decision evaluates at most three candidate paths, the first
\* three entries of find_all_paths; path_as_list is the node sequence of the
\* candidate whose expected utility, after adjustments, is the largest, and
\* all_evaluated_paths holds one entry for every candidate considered.
C17_BestCandidate ==
    (result.op = "make_decision" /\ result.ret.status = "ok"
        /\ result.ret.success) =>
        BestOfFirstThree(FindAllPaths(routes, start, goal, Infinity).paths,
                         result.ret)

\* make_decision considered three candidates and returned one that is not
\* the cheapest.
C17_Witness ==
    /\ result.op = "make_decision"
    /\ result.ret.status = "ok"
    /\ result.ret.success
    /\ result.ret.num_paths_considered = 3
    /\ result.ret.path_as_list # best_paths[1].path

\* No completed course of the catalog has a path to the goal.
NoPathToGoal(goal_course) ==
    \A i \in 1..Len(start_courses) :
        start_courses[i] \in Courses =>
            ~Reachable(BuildWeightedGraph(BALANCED, NoCostWeights),
                       start_courses[i], goal_course)

\* C18: when no path exists from the completed courses to the goal, the
\* hybrid planning entry points return a failure result with success =
\* false and raise no exception.
C18_NoPathIsFailure ==
    (/\ result.op \in {"make_decision", "recommend_course_sequence",
                       "find_optimal_learning_path"}
     /\ result.op # "make_decision" =>
            result.goal_course \in Courses /\ NoPathToGoal(result.goal_course)
     /\ result.op = "make_decision" =>
            start \in DOMAIN routes /\ goal \in DOMAIN routes
                /\ ~Reachable(routes, start, goal))
    => (result.ret.status = "ok" /\ ~result.ret.success)

\* C19: a hybrid planning call leaves the graph it searched and the course
\* catalog of the advisor, its prerequisite map and its attribute map,
\* as they were before the call.
C19_CallsChangeNothing ==
    [][/\ routes # << >> => routes' = routes
       /\ advisor # <<>> => advisor' = advisor]_vars

\* C20: every prerequisite-to-course edge that _build_weighted_graph
\* produces has a strictly positive weight, for every learning style and
\* every weight override, all-zero and negative ones included; the only
\* zero-weight edges of a planning graph are those leaving the virtual start
\* node.
C20_PositiveWeights ==
    result.op = "get_learning_path" =>
        \A node \in DOMAIN routes : \A i \in 1..Len(routes[node]) :
            IF node = VirtualStart THEN routes[node][i][2] = 0
            ELSE routes[node][i][2] > 0

\* A planning graph was built with a negative weight override under which
\* the weighted sum for Machine Learning is negative; its edges got the
\* difficulty of the course as weight, and a completed course a zero edge.
C20_Witness ==
    /\ result.op = "get_learning_path"
    /\ result.cost_weights = WeightMap(-10, 0, 20, 0)
    /\ routes # << >>
    /\ <<"Machine Learning", 9 * One>> \in Range(routes["Data Structures"])
    /\ routes[VirtualStart] # <<>>

(***************************************************************************)
(* Properties of find_learning_path.                                       *)
(***************************************************************************)
\* The planning graph without the virtual start node.
WeightedGraph == [c \in DOMAIN routes \ {VirtualStart} |-> routes[c]]

\* The completed courses that are in the graph.
KnownCompleted == Range(start_courses) \cap (DOMAIN routes \ {VirtualStart})

\* A request planned with Dijkstra returned a result dictionary.
DijkstraRequest ==
    /\ result.op = "get_learning_path"
    /\ result.ret.status = "ok"
    /\ result.ret.algorithm_used = DIJKSTRA

\* C21: find_learning_path under Dijkstra returns a total cost equal to the
\* minimum, over the completed courses that are in the graph, of the shortest
\* weighted distance from that course to the goal; the returned path_list
\* omits the virtual start node, begins with a completed course and ends
\* with the goal; completed courses absent from the graph contribute no edge.
C21_CostFromNearestCompleted ==
    DijkstraRequest =>
        /\ result.ret.total_cost
              = SetMin({Infinity} \cup
                       {Distance(WeightedGraph, c, result.goal_course) :
                            c \in KnownCompleted})
        /\ result.ret.success =>
              /\ VirtualStart \notin Range(result.ret.path_list)
              /\ result.ret.path_list[1] \in KnownCompleted
              /\ result.ret.path_list[Len(result.ret.path_list)] = result.goal_course
              /\ IsPathOf(WeightedGraph, result.ret.path_list)
        /\ Successors(routes, VirtualStart) = KnownCompleted
        /\ Len(routes[VirtualStart])
              = Cardinality({i \in 1..Len(start_courses) :
                                 start_courses[i] \in DOMAIN WeightedGraph})

\* Two completed courses, one of them not in the catalog, and a path that
\* starts at the other; and two catalog courses completed, the path starting
\* at the one nearer to the goal.
C21_Witness ==
    /\ DijkstraRequest
    /\ result.ret.success
    /\ start_courses = <<"Python Basics", "Data Structures">>
    /\ result.ret.path_list[1] = "Data Structures"
    /\ Len(result.ret.path_list) >= 2
    /\ result.ret.total_cost
          < Distance(WeightedGraph, "Python Basics", result.goal_course)

\* The request to the alternatives entry point named catalog courses only
\* and a learning style that exists.
AlternativesRequest ==
    /\ result.op = "get_learning_path_with_alternatives"
    /\ Lower(result.learning_style) \in LearningStyle
    /\ result.goal_course \in Courses
    /\ \A i \in 1..Len(start_courses) : start_courses[i] \in Courses

\* `ret` holds a primary path and alternatives that differ from it, each
\* with its total cost, total time and average difficulty.
PrimaryAndAlternatives(ret) ==
    /\ ret.status = "ok"
    /\ ret.primary_path.status = "ok"
    /\ \A i \in 1..Len(ret.alternative_paths) :
          /\ ret.alternative_paths[i].path_list # ret.primary_path.path_list
          /\ {"total_cost", "total_time_hours", "average_difficulty"}
                \subseteq DOMAIN ret.alternative_paths[i]

\* C22: the API function get_learning_path_with_alternatives, called with
\* catalog courses and a valid style, returns the primary path together with
\* a list of alternative paths that does not contain the primary path, each
\* alternative carrying its total cost, total time and average difficulty.
C22_PrimaryWithAlternatives ==
    AlternativesRequest => PrimaryAndAlternatives(result.ret)

(***************************************************************************)
(* Graphs with dangling edges.                                             *)
(***************************************************************************)
\* An edge of the start node points to a node that is no key; every search
\* runs over all the edges of the start node, the goal being another node.
DanglingAtStart ==
    /\ start \in DOMAIN routes
    /\ start # goal
    /\ \E w \in Warnings(routes) : w[1] = start

\* C23: a graph in which some edge points to a node that is not a key is
\* accepted at construction with only a warning, and a Dijkstra, A* or BFS
\* search on it whose exploration reaches that edge still completes with a
\* path or with the no-path sentinel, not with an error.
C23_DanglingEdgeTolerated ==
    /\ (result.op = "__init__" /\ result.status = "ok") =>
           result.warnings = Warnings(routes)
    /\ (DanglingAtStart
           /\ result.op \in {"dijkstra_pathfinding", "astar_pathfinding",
                             "bfs_pathfinding"}
           /\ (result.op = "astar_pathfinding" => heuristic # NoHeuristic)) =>
           result.ret.status \in {"ok", "nopath"}

(***************************************************************************)
(* Properties of POST /api/path.                                           *)
(***************************************************************************)
\* The field is missing from the posted body, or empty.
MissingOrEmpty(data, field) == field \notin DOMAIN data \/ Len(data[field]) = 0

\* The courses the body names.
NamedCourses(data) == Range(data.start_courses) \cup {data.goal_course}

\* The optional fields that are present hold documented tokens.
DocumentedOptions(data) ==
    /\ "learning_style" \in DOMAIN data => Lower(data.learning_style) \in LearningStyle
    /\ "algorithm" \in DOMAIN data => data.algorithm \in PathfindingAlgorithm

\* C24: POST /api/path answers 400 when start_courses or goal_course is
\* missing or empty and 404 when any named course is not in the catalog, in
\* both cases before any path computation runs; when every required field
\* is present, non-empty and names a catalog course, it answers 200 with a
\* path field.
C24_PathEndpoint ==
    result.op = "POST /api/path" =>
        IF MissingOrEmpty(result.data, "start_courses")
              \/ MissingOrEmpty(result.data, "goal_course")
        THEN /\ result.handled.response.status_code = 400
             /\ ~result.handled.computed
        ELSE IF ~(NamedCourses(result.data) \subseteq Courses)
        THEN /\ result.handled.response.status_code = 404
             /\ ~result.handled.computed
        ELSE DocumentedOptions(result.data) =>
             /\ result.handled.response.status_code = 200
             /\ "path" \in DOMAIN result.handled.response.json

(***************************************************************************)
(* find_all_paths on graphs with cycles.                                   *)
(***************************************************************************)
\* The graph has a cycle u -> v -> u.
TwoCycles(rt) ==
    {<<u, v>> \in (DOMAIN rt) \X (DOMAIN rt) : HasEdge(rt, u, v) /\ HasEdge(rt, v, u)}

\* C25: on graphs that contain cycles, cycles of zero-weight edges included,
\* find_all_paths (its edge-removal and its node-removal passes) terminates,
\* and every path it returns visits no node more than once.
C25_TerminatesWithSimplePaths ==
    result.op = "find_all_paths" =>
        /\ result.ret.status = "ok"
        /\ \A i \in 1..Len(result.ret.paths) :
              Cardinality(Range(result.ret.paths[i].path))
                  = Len(result.ret.paths[i].path)

\* find_all_paths returned a path that runs through a cycle whose two edges
\* both have weight zero.
C25_Witness ==
    /\ result.op = "find_all_paths"
    /\ result.ret.status = "ok"
    /\ \E c \in TwoCycles(routes) :
          /\ EdgeWeights(routes, c[1], c[2]) = {0}
          /\ EdgeWeights(routes, c[2], c[1]) = {0}
          /\ \E i \in 1..Len(result.ret.paths) :
                {c[1], c[2]} \subseteq Range(result.ret.paths[i].path)

\* C26: with a caller-supplied heuristic that is admissible but not
\* necessarily consistent, astar_pathfinding still returns a path whose cost
\* equals the optimal (Dijkstra) cost, on every graph with non-negative edge
\* weights.
C26_AdmissibleIsEnough ==
    (/\ result.op = "astar_pathfinding"
     /\ heuristic # NoHeuristic
     /\ Admissible(routes, goal, heuristic)) =>
        /\ result.ret.status = DijkstraPathfinding(routes, start, goal).status
        /\ result.ret.cost = DijkstraPathfinding(routes, start, goal).cost

\* The catalog prerequisites of a course.
PrerequisitesOf(course) ==
    UNION {Range(course_prerequisites[i].prereqs) :
               i \in {j \in 1..Len(course_prerequisites) :
                          course_prerequisites[j].course = course}}

\* C27: in every successful result of find_learning_path, each course on the
\* returned path has all of its catalog prerequisites either among the
\* completed courses or earlier on the path.
C27_PrerequisitesMet ==
    (/\ result.op = "get_learning_path"
     /\ result.ret.status = "ok"
     /\ result.ret.success) =>
        \A i \in 1..Len(result.ret.path_list) :
            PrerequisitesOf(result.ret.path_list[i])
                \subseteq (Range(start_courses)
                           \cup {result.ret.path_list[j] : j \in 1..(i - 1)})

\* C28: whenever get_path_details reports success, for any of the three
\* algorithm selections, the best_path it reports is one of the paths listed
\* in all_alternative_paths of the same result.
C28_BestAmongAlternatives ==
    (/\ result.op = "get_path_details"
     /\ result.ret.status = "ok"
     /\ result.ret.success) =>
        \E i \in 1..Len(result.ret.all_alternative_paths) :
            result.ret.all_alternative_paths[i].path = result.ret.best_path

(***************************************************************************)
(* Properties of InMemoryCache.                                            *)
(***************************************************************************)
\* The position in `used` of the last successful get or set of `key`; 0 when
\* there is none.
LastUse(used, key) ==
    IF \E i \in 1..Len(used) : used[i] = key
    THEN CHOOSE i \in 1..Len(used) :
             used[i] = key /\ \A j \in (i + 1)..Len(used) : used[j] # key
    ELSE 0

\* The cached key whose last successful get or set is the oldest.
LeastRecentlyUsed(c, used) ==
    CHOOSE k \in CachedKeys(c) :
        \A other \in CachedKeys(c) : LastUse(used, k) <= LastUse(used, other)

\* `key` is cached and every other cached key was last used before it.
MostRecentlyUsed(c, used, key) ==
    /\ key \in CachedKeys(c)
    /\ \A other \in CachedKeys(c) \ {key} :
           LastUse(used, other) < LastUse(used, key)

\* Thread t runs the body of its method in this step.
Runs(t) == threads[t].pc = "locked" /\ threads'[t].pc = "idle"

\* C29: under any interleaving of get, set, delete and clear calls of
\* several threads on a cache with max_size >= 1, the cache never holds more
\* than max_size entries; a set of a new key on a full cache evicts exactly
\* the least recently used key; and a successful get and a set make their
\* key the most recently used one.
C29_BoundedLru ==
    /\ [](max_size >= 1 =>
             /\ Len(cache) <= max_size
             /\ Cardinality(CachedKeys(cache)) = Len(cache))
    /\ [][\A t \in Threads : (max_size >= 1 /\ Runs(t)) =>
             /\ (/\ threads[t].op = "set"
                 /\ threads[t].key \notin CachedKeys(cache)
                 /\ Len(cache) = max_size) =>
                    CachedKeys(cache')
                        = (CachedKeys(cache) \ {LeastRecentlyUsed(cache, uses)})
                              \cup {threads[t].key}
             /\ (\/ threads[t].op = "set"
                 \/ threads[t].op = "get" /\ threads'[t].ret # None) =>
                    MostRecentlyUsed(cache', uses', threads[t].key)]_vars

\* Two threads made two calls each on a cache of two entries: k1 and k2 were
\* set, k1 was read, and the set of k3 evicted k2.
C29_Witness ==
    /\ max_size = 2
    /\ uses = <<"k1", "k2", "k1", "k3">>
    /\ stats.evictions = 1
    /\ stats.hits = 1
    /\ Len(cache) = 2
    /\ cache[1].key = "k1"
    /\ cache[2].key = "k3"
    /\ \A t \in Threads : threads[t].calls = MaxCalls

(***************************************************************************)
(* Properties of PerformanceMonitor.                                       *)
(***************************************************************************)
\* The history of a name: the list the dict holds for it.
History(name) == IF name \in DOMAIN metrics THEN lists[metrics[name]] ELSE <<>>

\* The values of the metrics record_metric has appended for a name so far.
Recorded(name) ==
    {<<t, n>> : t \in Threads, n \in 1..MaxCalls} \cap
        UNION {Range([i \in 1..Len(lists[l]) |-> lists[l][i].value]) :
                   l \in 1..Len(lists)}

\* A thread read, with get_metric_stats, a history longer than max_history
\* of a monitor whose max_history is at least 1.
LongHistoryObserved ==
    /\ max_history >= 1
    /\ \E t \in Threads :
          /\ threads[t].pc = "idle"
          /\ threads[t].calls > 0
          /\ threads[t].op = "get_metric_stats"
          /\ threads[t].ret.metric # None
          /\ threads[t].ret.count > max_history

\* C30: under concurrent record_metric calls for the same name, the history
\* of that name never holds more than max_history entries, neither in the
\* dict nor in what a get_metric_stats call of another thread counts, and
\* while fewer than max_history metrics have been recorded none of them is
\* lost.
C30_BoundedHistory ==
    /\ ~LongHistoryObserved
    /\ \A name \in MetricNames :
        /\ Len(History(name)) <= max_history
        /\ Cardinality(Recorded(name)) < max_history =>
               \A value \in Recorded(name) :
                   \E i \in 1..Len(History(name)) : History(name)[i].value = value
====
